---- MODULE Spec2Model ----
(***************************************************************************)
(* Model of the Squeakquel datastore adapter (src/index.js, lines 1-639):  *)
(* the table/model registries built by the constructor, the CRUD handlers  *)
(* _get, _save, _remove, _update, the query builder inside _scan, and the  *)
(* transcoder (encodeToDialect, decodeFromDialect) with the answers of the *)
(* backend operations.                                                     *)
(*                                                                         *)
(* A behaviour is one call made on a constructed adapter: Init is the      *)
(* adapter after construction together with the request that is about to   *)
(* be handled; the handler's synchronous part is one action, and each      *)
(* promise callback it registers is a further action.                      *)
(***************************************************************************)
EXTENDS Integers, Sequences, FiniteSets, TLC

VARIABLES
    dialect,    \* this.client.getDialect()
    prefix,     \* this.prefix
    tables,     \* names for which this.tables[name] is defined
    models,     \* this.models: table name -> model descriptor
    registry,   \* the models the constructor iterates over, in order
    defined,    \* the calls of this.client.define, in order
    call,       \* the request being handled: [op, config]
    pc,         \* "constructing" | "pending" | "encoding" | "awaiting" | "settled"
    log,        \* transcoder steps and backend table operations of this call
    plan,       \* the argument handed to findAll / findAndCountAll
    args,       \* the argument handed to the other backend operations
    sql,        \* the arguments handed to sequelize.query
    searchWhere,\* findParams.where as it stands after the search block
    awaited,    \* encodeToDialect: how each value handed to Promise.all stands
    response,   \* what the backend operation answered
    result,     \* how the promise returned by the handler stands
    parked,     \* the other call in flight, waiting for its next callback
    started     \* the number of calls made on this adapter

\* what the constructor sets
adapter == <<dialect, prefix, tables, models, registry, defined>>
\* the calls in flight beside the one being handled
session == <<parked, started>>

vars == <<adapter, session, call, pc, log, plan, args, sql, searchWhere,
          awaited, response, result>>

Range(s) == {s[i] : i \in 1..Len(s)}
Least(S) == CHOOSE i \in S : \A j \in S : i <= j
Greatest(S) == CHOOSE i \in S : \A j \in S : i >= j

-----------------------------------------------------------------------------
(* JavaScript values.  A string is kept as its text s; a string of the     *)
(* shape "<pre>:<s>" keeps the token before the colon in pre.              *)

Str(s)       == [k |-> "str",   pre |-> "", s |-> s,  n |-> 0, l |-> <<>>]
OpStr(p, s)  == [k |-> "str",   pre |-> p,  s |-> s,  n |-> 0, l |-> <<>>]
Num(n)       == [k |-> "int",   pre |-> "", s |-> "", n |-> n, l |-> <<>>]
List(l)      == [k |-> "list",  pre |-> "", s |-> "", n |-> 0, l |-> l]
Bool(b)      == [k |-> "bool",  pre |-> "", s |-> "", n |-> IF b THEN 1 ELSE 0, l |-> <<>>]
Undefined    == [k |-> "undef", pre |-> "", s |-> "", n |-> 0, l |-> <<>>]
Null         == [k |-> "null",  pre |-> "", s |-> "", n |-> 0, l |-> <<>>]
\* an object literal; l lists its members as key, value, key, value, ...
Obj(l)       == [k |-> "obj",   pre |-> "", s |-> "", n |-> 0, l |-> l]
\* a promise that yields v if it is fulfilled
Promised(v)  == [k |-> "promise", pre |-> "", s |-> "", n |-> 0, l |-> <<v>>]
\* a punctuation mark of a JSON text
Punct(c)     == [k |-> "punct", pre |-> "", s |-> c,  n |-> 0, l |-> <<>>]
\* a text, kept as the sequence of its JSON lexemes: punctuation marks and
\* the literals null, true, false, numbers and quoted strings
TextOf(lexemes) == [k |-> "json", pre |-> "", s |-> "", n |-> 0, l |-> lexemes]

\* the members of an object literal that JSON.stringify writes: those whose
\* value is not undefined
RECURSIVE WrittenMembers(_, _)
WrittenMembers(l, i) ==
    IF i + 1 > Len(l) THEN <<>>
    ELSE IF l[i + 1].k = "undef" THEN WrittenMembers(l, i + 2)
    ELSE <<l[i], l[i + 1]>> \o WrittenMembers(l, i + 2)

\* the lexemes JSON.stringify writes for v inside a text
RECURSIVE Lexemes(_)
RECURSIVE ElementLexemes(_, _)
RECURSIVE MemberLexemes(_, _)
Lexemes(v) ==
    CASE v.k = "list" -> <<Punct("[")>> \o ElementLexemes(v.l, 1) \o <<Punct("]")>>
      [] v.k = "obj" -> <<Punct("{")>>
                            \o MemberLexemes(WrittenMembers(v.l, 1), 1)
                            \o <<Punct("}")>>
      [] v.k = "undef" -> <<Null>>
      [] OTHER -> <<v>>
ElementLexemes(l, i) ==
    IF i > Len(l) THEN <<>>
    ELSE (IF i > 1 THEN <<Punct(",")>> ELSE <<>>)
            \o Lexemes(l[i]) \o ElementLexemes(l, i + 1)
MemberLexemes(l, i) ==
    IF i + 1 > Len(l) THEN <<>>
    ELSE (IF i > 1 THEN <<Punct(",")>> ELSE <<>>)
            \o <<l[i], Punct(":")>> \o Lexemes(l[i + 1])
            \o MemberLexemes(l, i + 2)

\* JSON.stringify(v): the JSON text of v, undefined for undefined
JsonText(v) == IF v.k = "undef" THEN Undefined ELSE TextOf(Lexemes(v))

\* the result of a parsing step: the value read and the position after it
Parsed(v, next) == [ok |-> TRUE, v |-> v, next |-> next]
ParseFail == [ok |-> FALSE, v |-> Undefined, next |-> 0]

\* JSON.parse, by recursive descent over the lexemes t from position i
RECURSIVE ParseValue(_, _)
RECURSIVE ParseElements(_, _, _)
RECURSIVE AfterElement(_, _, _)
RECURSIVE ParseMembers(_, _, _)
RECURSIVE AfterMember(_, _, _, _)
ParseValue(t, i) ==
    IF i > Len(t) THEN ParseFail
    ELSE IF t[i].k \in {"int", "str", "null", "bool"} THEN Parsed(t[i], i + 1)
    ELSE IF t[i] = Punct("[")
    THEN IF i + 1 <= Len(t) /\ t[i + 1] = Punct("]")
         THEN Parsed(List(<<>>), i + 2)
         ELSE ParseElements(t, i + 1, <<>>)
    ELSE IF t[i] = Punct("{")
    THEN IF i + 1 <= Len(t) /\ t[i + 1] = Punct("}")
         THEN Parsed(Obj(<<>>), i + 2)
         ELSE ParseMembers(t, i + 1, <<>>)
    ELSE ParseFail
ParseElements(t, i, acc) == AfterElement(t, ParseValue(t, i), acc)
AfterElement(t, r, acc) ==
    IF ~r.ok \/ r.next > Len(t) THEN ParseFail
    ELSE IF t[r.next] = Punct(",")
    THEN ParseElements(t, r.next + 1, Append(acc, r.v))
    ELSE IF t[r.next] = Punct("]")
    THEN Parsed(List(Append(acc, r.v)), r.next + 1)
    ELSE ParseFail
ParseMembers(t, i, acc) ==
    IF i + 1 > Len(t) \/ t[i].k # "str" \/ t[i + 1] # Punct(":") THEN ParseFail
    ELSE AfterMember(t, t[i], ParseValue(t, i + 2), acc)
AfterMember(t, key, r, acc) ==
    IF ~r.ok \/ r.next > Len(t) THEN ParseFail
    ELSE IF t[r.next] = Punct(",")
    THEN ParseMembers(t, r.next + 1, acc \o <<key, r.v>>)
    ELSE IF t[r.next] = Punct("}")
    THEN Parsed(Obj(acc \o <<key, r.v>>), r.next + 1)
    ELSE ParseFail

\* a whole text parses when one value spans all of its lexemes
WholeText(t, r) == IF r.ok /\ r.next = Len(t) + 1 THEN r ELSE ParseFail

\* JSON.parse(v): v is first converted to a string; null, a number and a
\* boolean read back as themselves, undefined reads as the word undefined.
\* A plain string stands for a text that is a single bare word.
JsonParse(v) ==
    CASE v.k = "json" -> WholeText(v.l, ParseValue(v.l, 1))
      [] v.k \in {"null", "int", "bool"} -> Parsed(v, 0)
      [] v.k = "str" /\ v.pre = "" /\ v.s = "null" -> Parsed(Null, 0)
      [] v.k = "str" /\ v.pre = "" /\ v.s = "true" -> Parsed(Bool(TRUE), 0)
      [] v.k = "str" /\ v.pre = "" /\ v.s = "false" -> Parsed(Bool(FALSE), 0)
      [] OTHER -> ParseFail
\* the literal (SELECT MAX(t.id) FROM <table> AS t WHERE ...) of the groupBy path
SubQuery(tableName, cols) ==
    [k |-> "subq", pre |-> "", s |-> tableName, n |-> 0, l |-> cols]

\* the text of a scalar, as a template literal or a property key renders it
Text(v) ==
    CASE v.k = "str" -> IF v.pre = "" THEN v.s ELSE v.pre \o ":" \o v.s
      [] v.k = "int" -> ToString(v.n)
      [] v.k = "bool" -> IF v.n = 1 THEN "true" ELSE "false"
      [] v.k = "null" -> "null"
      [] OTHER -> "undefined"

\* JavaScript truthiness
Truthy(v) ==
    CASE v.k \in {"undef", "null"} -> FALSE
      [] v.k = "str" -> Text(v) # ""
      [] v.k = "int" -> v.n # 0
      [] v.k = "bool" -> v.n = 1
      [] OTHER -> TRUE

IsArray(v) == v.k = "list"
IsInteger(v) == v.k = "int"

\* the elements of a list value, or the value alone
AsList(v) == IF IsArray(v) THEN v.l ELSE <<v>>

-----------------------------------------------------------------------------
(* The schema registry handed to the constructor (screwdriver-data-schema):*)
(* testModels and jobs as the repository's tests declare them, and         *)
(* templates, a model with two indexes and their range keys.               *)

\* one rule of a described field: { name, args: { limit } }
Rule(name, limit) == [name |-> name, limit |-> limit]
\* fields[fieldName].describe(): the type, the rules, the rules of
\* alternatives[0] or of matches[0].schema when there are any, and the
\* default and presence flags
Describe(type, rules) ==
    [type |-> type, rules |-> rules,
     hasAlternatives |-> FALSE, alternativeRules |-> <<>>,
     hasMatches |-> FALSE, matchRules |-> <<>>,
     hasDefault |-> FALSE, default |-> Undefined, required |-> FALSE]
Matches(matchRules) ==
    [Describe("alternatives", <<>>) EXCEPT
        !.hasMatches = TRUE, !.matchRules = matchRules]
Alternatives(alternativeRules) ==
    [Describe("alternatives", <<>>) EXCEPT
        !.hasAlternatives = TRUE, !.alternativeRules = alternativeRules]
Defaulted(field, value, required) ==
    [field EXCEPT !.hasDefault = TRUE, !.default = value, !.required = required]

Model(tn, f, ty, hasIx, ix, hasRk, rk) ==
    [tableName |-> tn, fields |-> f, types |-> ty, hasIndexes |-> hasIx,
     indexes |-> ix, hasRangeKeys |-> hasRk, rangeKeys |-> rk,
     keys |-> <<>>,
     describe |-> [x \in DOMAIN ty |-> Describe(ty[x], <<>>)]]
\* a model with its keys, whose id is joi.string().length(40)
Keyed(model, keys) ==
    [model EXCEPT !.keys = keys,
                  !.describe["id"] = Describe("string", <<Rule("length", 40)>>)]

TestModel ==
  Keyed(
    Model("testModels",
          <<"id", "str", "date", "num", "bool", "bin", "arr", "obj", "any",
            "namespace", "name">>,
          [id |-> "string", str |-> "string", date |-> "date", num |-> "number",
           bool |-> "boolean", bin |-> "binary", arr |-> "array",
           obj |-> "object", any |-> "any", namespace |-> "string",
           name |-> "string"],
          TRUE, <<"str">>, FALSE, <<>>),
    <<"num", "str">>)

JobModel ==
    Keyed(Model("jobs", <<"id", "name">>, [id |-> "string", name |-> "string"],
                TRUE, <<"name">>, TRUE, <<"name">>),
          <<"name">>)

TemplateModel ==
  Keyed(
    Model("templates",
          <<"id", "namespace", "name", "trusted", "createTime">>,
          [id |-> "string", namespace |-> "string", name |-> "string",
           trusted |-> "boolean", createTime |-> "string"],
          TRUE, <<"namespace", "name">>, TRUE, <<"createTime", "name">>),
    <<"namespace", "name">>)

Schemas ==
    [testModel |-> TestModel, job |-> JobModel, template |-> TemplateModel]

MODEL_NAMES == DOMAIN Schemas

\* fields[fieldName].type, undefined for a name that is no field
FieldType(model, fieldName) ==
    IF fieldName \in DOMAIN model.types THEN model.types[fieldName]
    ELSE "undefined"

-----------------------------------------------------------------------------
(* Errors and promise states *)

Err(msg, arg) == [msg |-> msg, arg |-> arg]
NoErr == Err("", "")

\* what a promise resolves to: null, one record, a list of records, or the
\* object {count, rows}
ResultValue(kind, rows, count) == [kind |-> kind, rows |-> rows, count |-> count]
NoValue == ResultValue("none", <<>>, 0)
NullValue == ResultValue("null", <<>>, 0)
RecordValue(rec) == ResultValue("record", <<rec>>, 0)
RowsValue(rows) == ResultValue("rows", rows, 0)
CountedValue(count, rows) == ResultValue("counted", rows, count)

Outcome(state, err) == [state |-> state, err |-> err, value |-> NoValue]
Unsettled == Outcome("pending", NoErr)
Resolved(value) == [state |-> "resolved", err |-> NoErr, value |-> value]

-----------------------------------------------------------------------------
(* The query plan (findParams) *)

\* where[key] = value : plain equality against a scalar
ValPred(v) == [kind |-> "val", val |-> v, ops |-> {}]
\* where[key] = { [op]: value, ... }
OpsPred(ops) == [kind |-> "ops", val |-> Undefined, ops |-> ops]
OpVal(op, v) == [op |-> op, v |-> v]

EmptyEnt == [x \in {} |-> ValPred(Undefined)]
EmptyWhere == [ent |-> EmptyEnt, hasOr |-> FALSE, or |-> <<>>]

\* where[key] = pred, replacing any entry the key had
SetEnt(where, key, pred) ==
    [where EXCEPT !.ent = [x \in (DOMAIN where.ent) \cup {key} |->
                              IF x = key THEN pred ELSE where.ent[x]]]

NoAttributes ==
    [kind |-> "none", list |-> <<>>, hasExclude |-> FALSE, exclude |-> <<>>]
Attr(t, c, sub, cast, as) ==
    [t |-> t, col |-> c, sub |-> sub, cast |-> cast, as |-> as]

NoOrder == [has |-> FALSE, key |-> "", isCol |-> FALSE, dir |-> ""]
OrderBy(key, isCol, dir) == [has |-> TRUE, key |-> key, isCol |-> isCol, dir |-> dir]

NoPlan ==
    [where |-> EmptyWhere, order |-> NoOrder, hasLimit |-> FALSE, limit |-> 0,
     offset |-> 0, attributes |-> NoAttributes, hasGroup |-> FALSE, group |-> ""]

-----------------------------------------------------------------------------
(* _scan: the query builder *)

\* _fieldInvalid: validFields.includes(field) is false
FieldInvalid(validFields, field) ==
    ~(field.k = "str" /\ Text(field) \in Range(validFields))

\* Array.prototype.indexOf, zero-based, -1 when absent
IndexOf(seq, x) ==
    IF \E i \in 1..Len(seq) : seq[i] = x
    THEN (CHOOSE i \in 1..Len(seq) :
              seq[i] = x /\ \A j \in 1..(i - 1) : seq[j] # x) - 1
    ELSE -1

\* model.indexes && model.rangeKeys ? model.indexes.indexOf(paramName) : -1
IndexIndex(model, paramName) ==
    IF model.hasIndexes /\ model.hasRangeKeys
    THEN IndexOf(model.indexes, paramName)
    ELSE -1

\* model.rangeKeys[indexIndex]
RangeKeyAt(model, indexIndex) ==
    IF indexIndex + 1 \in 1..Len(model.rangeKeys)
    THEN model.rangeKeys[indexIndex + 1]
    ELSE "undefined"

\* the builder's locals: findParams.where, .attributes, .order and .group,
\* sortKey, and the error that ended the build, if any
Build(where, attributes, sortKey) ==
    [where |-> where, attributes |-> attributes, sortKey |-> sortKey,
     sortIsCol |-> FALSE, order |-> NoOrder, hasGroup |-> FALSE, group |-> "",
     searchWhere |-> EmptyWhere, out |-> Unsettled]

Thrown(b, msg, arg) == [b EXCEPT !.out = Outcome("thrown", Err(msg, arg))]
Rejected(b, msg, arg) == [b EXCEPT !.out = Outcome("rejected", Err(msg, arg))]
Failed(b) == b.out.state # "pending"

\* a variant that wraps every scalar param value in an explicit EQ operator
ScalarParamPredEq(paramValue) == OpsPred({OpVal("EQ", paramValue)})

\* the where entry a scalar param value makes
ScalarParamPred(paramValue) == ValPred(paramValue)

\* a variant of the value branch that stores a scalar param without the
\* _fieldInvalid test on its key
ParamBranchUnchecked(model, b, paramName, paramValue) ==
    IF IsArray(paramValue)
    THEN [b EXCEPT !.where =
             SetEnt(@, paramName, OpsPred({OpVal("IN", paramValue)}))]
    ELSE IF paramName = "distinct"
    THEN IF FieldInvalid(model.fields, paramValue)
         THEN Thrown(b, "Invalid distinct field", Text(paramValue))
         ELSE [b EXCEPT !.attributes =
                  [kind |-> "array",
                   list |-> <<Attr("distinct", Text(paramValue), FALSE, FALSE,
                                   Text(paramValue))>>,
                   hasExclude |-> FALSE, exclude |-> <<>>]]
    ELSE [b EXCEPT !.where = SetEnt(@, paramName, ValPred(paramValue))]

\* one turn of the forEach over Object.keys(config.params): the value branch
ParamBranch(model, b, paramName, paramValue) ==
    IF IsArray(paramValue)
    THEN [b EXCEPT !.where =
             SetEnt(@, paramName, OpsPred({OpVal("IN", paramValue)}))]
    ELSE IF paramName = "distinct"
    THEN IF FieldInvalid(model.fields, paramValue)
         THEN Thrown(b, "Invalid distinct field", Text(paramValue))
         ELSE [b EXCEPT !.attributes =
                  [kind |-> "array",
                   list |-> <<Attr("distinct", Text(paramValue), FALSE, FALSE,
                                   Text(paramValue))>>,
                   hasExclude |-> FALSE, exclude |-> <<>>]]
    ELSE IF FieldInvalid(model.fields, Str(paramName))
         THEN Thrown(b, "Invalid param", paramName)
         ELSE [b EXCEPT !.where =
                  SetEnt(@, paramName, ScalarParamPred(paramValue))]

\* a variant of the index match that keeps the range key of the first
\* matching params key
IndexMatchFirst(model, b, indexIndex) ==
    IF ~Failed(b) /\ indexIndex >= 0 /\ b.sortKey = "id"
    THEN [b EXCEPT !.sortKey = RangeKeyAt(model, indexIndex)]
    ELSE b

\* a variant of the index match in which a key that is no index puts the sort
\* key back to 'id'
IndexMatchOrReset(model, b, indexIndex) ==
    IF Failed(b) THEN b
    ELSE [b EXCEPT !.sortKey =
             IF indexIndex >= 0 THEN RangeKeyAt(model, indexIndex) ELSE "id"]

\* one turn of the forEach: the value branch, then the index match
IndexMatch(model, b, indexIndex) ==
    IF ~Failed(b) /\ indexIndex >= 0
    THEN [b EXCEPT !.sortKey = RangeKeyAt(model, indexIndex)]
    ELSE b

ParamStep(model, b, paramName, paramValue) ==
    IndexMatch(model, ParamBranch(model, b, paramName, paramValue),
               IndexIndex(model, paramName))

\* Object.keys(config.params).forEach(...), from the i-th key on
RECURSIVE ParamLoop(_, _, _, _)
ParamLoop(model, b, params, i) ==
    IF Failed(b) \/ i > Len(params) THEN b
    ELSE ParamLoop(model,
                   ParamStep(model, b, params[i].key, params[i].val),
                   params, i + 1)

\* a variant that ignores the dialect
SearchOperatorLike(dia, search) == "LIKE"

\* this.client.getDialect() === 'postgres' ? Op.iLike : Op.like
SearchOperator(dia, search) ==
    IF dia = "postgres" THEN "ILIKE" ELSE "LIKE"

\* a variant of the list form's operator that looks at every keyword
ListSearchOperatorAny(dia, search, searchKeywords) ==
    IF \E j \in 1..Len(searchKeywords) : IsInteger(searchKeywords[j])
    THEN "EQ"
    ELSE IF dia = "postgres" THEN "ILIKE" ELSE "LIKE"

\* the operator of the list form: decided by the first keyword alone
ListSearchOperator(dia, search, searchKeywords) ==
    IF Len(searchKeywords) > 0 /\ IsInteger(searchKeywords[1])
    THEN "EQ"
    ELSE SearchOperator(dia, search)

OrPred(field, op, keyword) == [field |-> field, op |-> op, kw |-> keyword]

\* searchKeywords.forEach(keyword => where[Op.or].push(...)) for one field
OrPredsOf(field, op, searchKeywords) ==
    [j \in 1..Len(searchKeywords) |-> OrPred(Text(field), op, searchKeywords[j])]

\* searchFields.forEach(...), from the i-th field on
RECURSIVE SearchFieldLoop(_, _, _, _, _, _)
SearchFieldLoop(model, b, searchFields, searchKeywords, op, i) ==
    IF Failed(b) \/ i > Len(searchFields) THEN b
    ELSE IF FieldInvalid(model.fields, searchFields[i])
    THEN Thrown(b, "Invalid search field", Text(searchFields[i]))
    ELSE SearchFieldLoop(model,
             [b EXCEPT !.where.or =
                 @ \o OrPredsOf(searchFields[i], op, searchKeywords)],
             searchFields, searchKeywords, op, i + 1)

\* whether the search block is entered
SearchApplies(config) ==
    /\ config.search.present
    /\ Truthy(config.search.field)
    /\ Truthy(config.search.keyword)

\* a variant of the search block whose single form stores the predicate
\* without the _fieldInvalid test on search.field
SearchBlockUnchecked(dia, model, b, config) ==
    IF Failed(b) \/ ~SearchApplies(config) THEN b
    ELSE IF IsArray(config.search.field) \/ IsArray(config.search.keyword)
    THEN SearchFieldLoop(model,
             [b EXCEPT !.where.hasOr = TRUE, !.where.or = <<>>],
             AsList(config.search.field), AsList(config.search.keyword),
             ListSearchOperator(dia, config.search,
                                AsList(config.search.keyword)), 1)
    ELSE [b EXCEPT !.where =
             SetEnt(@, Text(config.search.field),
                    OpsPred({OpVal(SearchOperator(dia, config.search),
                                   config.search.keyword)}))]

\* the search block
SearchBlock(dia, model, b, config) ==
    IF Failed(b) \/ ~SearchApplies(config) THEN b
    ELSE IF IsArray(config.search.field) \/ IsArray(config.search.keyword)
    THEN SearchFieldLoop(model,
             [b EXCEPT !.where.hasOr = TRUE, !.where.or = <<>>],
             AsList(config.search.field), AsList(config.search.keyword),
             ListSearchOperator(dia, config.search,
                                AsList(config.search.keyword)), 1)
    ELSE IF FieldInvalid(model.fields, config.search.field)
    THEN Thrown(b, "Invalid search field", Text(config.search.field))
    ELSE [b EXCEPT !.where =
             SetEnt(@, Text(config.search.field),
                    OpsPred({OpVal(SearchOperator(dia, config.search),
                                   config.search.keyword)}))]

\* config.timeKey || 'createTime'
TimeKey(config) ==
    IF Truthy(config.timeKey) THEN Text(config.timeKey) ELSE "createTime"

\* Object.assign(where[timeKey], { [Op.lte]: endTime }) on an object entry
AssignOp(pred, op, v) ==
    OpsPred({o \in pred.ops : o.op # op} \cup {OpVal(op, v)})

\* the startTime / endTime block
StartTimeBlock(b, timeKey, config) ==
    IF ~Failed(b) /\ Truthy(config.startTime)
    THEN [b EXCEPT !.where =
             SetEnt(@, timeKey, OpsPred({OpVal("GTE", config.startTime)}))]
    ELSE b

EndTimeBlock(b, timeKey, config) ==
    IF Failed(b) \/ ~Truthy(config.endTime) THEN b
    ELSE IF timeKey \in DOMAIN b.where.ent /\ b.where.ent[timeKey].kind = "ops"
    THEN [b EXCEPT !.where =
             SetEnt(@, timeKey, AssignOp(@.ent[timeKey], "LTE", config.endTime))]
    ELSE IF timeKey \in DOMAIN b.where.ent /\ Truthy(b.where.ent[timeKey].val)
    \* a truthy primitive stays in place; Object.assign writes to a wrapper
    THEN b
    ELSE [b EXCEPT !.where =
             SetEnt(@, timeKey, OpsPred({OpVal("LTE", config.endTime)}))]

TimeBlock(b, config) ==
    EndTimeBlock(StartTimeBlock(b, TimeKey(config), config), TimeKey(config),
                 config)

\* a variant of the sortBy block without the _fieldInvalid test
SortByBlockUnchecked(model, b, config) ==
    IF Failed(b) \/ ~Truthy(config.sortBy) THEN b
    ELSE [b EXCEPT !.sortKey = Text(config.sortBy)]

\* the sortBy block
SortByBlock(model, b, config) ==
    IF Failed(b) \/ ~Truthy(config.sortBy) THEN b
    ELSE IF FieldInvalid(model.fields, config.sortBy)
    THEN Rejected(b, "Invalid sortBy", Text(config.sortBy))
    ELSE [b EXCEPT !.sortKey = Text(config.sortBy)]

\* if (!config.groupBy && Array.isArray(config.exclude))
ExcludeBlock(b, config) ==
    IF ~Failed(b) /\ ~Truthy(config.groupBy) /\ IsArray(config.exclude)
    THEN [b EXCEPT !.attributes =
             [kind |-> IF @.kind = "none" THEN "object" ELSE @.kind,
              list |-> @.list, hasExclude |-> TRUE, exclude |-> config.exclude.l]]
    ELSE b

\* validFields, less the excluded ones
IncludedFields(model, config) ==
    IF IsArray(config.exclude)
    THEN LET Kept(f) == Str(f) \notin Range(config.exclude.l)
         IN  SelectSeq(model.fields, Kept)
    ELSE model.fields

\* one entry of the groupBy projection: [col, field]
GroupAttr(model, field) ==
    Attr("col", field, field = "trusted", FieldType(model, field) = "boolean", field)

GroupAttrs(model, includedFields) ==
    [i \in 1..Len(includedFields) |-> GroupAttr(model, includedFields[i])]

\* a variant of the groupBy block that adds the max-id predicate to the where
\* clause built so far
GroupByBlockKeepWhere(pfx, model, b, config) ==
    IF Failed(b) \/ ~IsArray(config.groupBy) THEN b
    ELSE [b EXCEPT
             !.attributes =
                 [kind |-> "array",
                  list |-> GroupAttrs(model, IncludedFields(model, config)),
                  hasExclude |-> FALSE, exclude |-> <<>>],
             !.sortIsCol = TRUE,
             !.where =
                 SetEnt(b.where, "id",
                        OpsPred({OpVal("EQ",
                            SubQuery(pfx \o config.table, config.groupBy.l))}))]

\* the groupBy block: the projection, the sort key as a column, the where
\* clause replaced by the max-id subquery
GroupByBlock(pfx, model, b, config) ==
    IF Failed(b) \/ ~IsArray(config.groupBy) THEN b
    ELSE [b EXCEPT
             !.attributes =
                 [kind |-> "array",
                  list |-> GroupAttrs(model, IncludedFields(model, config)),
                  hasExclude |-> FALSE, exclude |-> <<>>],
             !.sortIsCol = TRUE,
             !.where =
                 SetEnt(EmptyWhere, "id",
                        OpsPred({OpVal("EQ",
                            SubQuery(pfx \o config.table, config.groupBy.l))}))]

\* config.sort === 'ascending' ? 'ASC' : 'DESC'
Direction(config) ==
    IF config.sort = Str("ascending") THEN "ASC" ELSE "DESC"

\* the order entry: [[sortKey, 'ASC' | 'DESC']]
OrderBlock(b, config) ==
    IF Failed(b) THEN b
    ELSE [b EXCEPT !.order = OrderBy(b.sortKey, b.sortIsCol, Direction(config))]

\* the aggregationField block
AggregationBlock(b, config) ==
    IF Failed(b) \/ ~Truthy(config.aggregationField) THEN b
    ELSE IF b.attributes.kind = "object"
    \* attributes is the { exclude } object, which has no push
    THEN Thrown(b, "TypeError", "findParams.attributes.push is not a function")
    ELSE [b EXCEPT
             !.attributes.kind = "array",
             !.attributes.list =
                 @ \o <<Attr("name", Text(config.aggregationField), FALSE, FALSE, ""),
                        Attr("count", Text(config.aggregationField), FALSE, FALSE,
                             "count")>>,
             !.hasGroup = TRUE,
             !.group = Text(config.aggregationField),
             !.order = NoOrder]

\* a variant of the offset that counts pages from zero
OffsetFromZero(config) == config.paginate.count * config.paginate.page

\* findParams.limit / findParams.offset
Limit(config) == config.paginate.count
Offset(config) == Limit(config) * (config.paginate.page - 1)

\* findParams.where as the search block leaves it
MarkSearch(b) == IF Failed(b) THEN b ELSE [b EXCEPT !.searchWhere = b.where]

\* the body of _scan after the table check, block by block
ScanBuild(dia, pfx, model, config) ==
    AggregationBlock(
      OrderBlock(
        GroupByBlock(pfx, model,
          ExcludeBlock(
            SortByBlock(model,
              TimeBlock(
                MarkSearch(
                  SearchBlock(dia, model,
                    ParamLoop(model, Build(EmptyWhere, NoAttributes, "id"),
                              config.params, 1),
                    config)),
                config),
              config),
            config),
          config),
        config),
      config)

\* findParams as handed to the backend
PlanOf(b, config) ==
    [where |-> b.where,
     order |-> b.order,
     hasLimit |-> config.paginate.present,
     limit |-> IF config.paginate.present THEN Limit(config) ELSE 0,
     offset |-> IF config.paginate.present THEN Offset(config) ELSE 0,
     attributes |-> b.attributes,
     hasGroup |-> b.hasGroup,
     group |-> b.group]

\* a variant that always fetches without counting
FinderFindAll(config) == "findAll"

\* config.getCount ? table.findAndCountAll : table.findAll
Finder(config) == IF config.getCount THEN "findAndCountAll" ELSE "findAll"

-----------------------------------------------------------------------------
(* The transcoder *)

\* encodeToDialect: array and object fields become JSON text
EncodeValue(model, fieldName, value) ==
    IF FieldType(model, fieldName) \in {"array", "object"}
    THEN JsonText(value)
    ELSE value

\* promisedValues[index]: what Promise.all yields for a value
Awaited(value) == IF value.k = "promise" THEN value.l[1] ELSE value

Encode(model, content) ==
    [i \in 1..Len(content) |->
        [key |-> content[i].key,
         val |-> EncodeValue(model, content[i].key, Awaited(content[i].val))]]

\* decodeFromDialect: JSON.parse throws on the value of an array/object field
DecodeThrowsAt(model, row) ==
    {i \in 1..Len(row) :
        FieldType(model, row[i].key) \in {"array", "object"}
        /\ ~JsonParse(row[i].val).ok}
\* a variant in which a text that does not parse is passed over
DecodeNeverThrows(model, row) == FALSE
DecodeThrows(model, row) == DecodeThrowsAt(model, row) # {}

\* a variant that leaves every stored value as it is
DecodeValueStored(model, fieldName, value) == value

\* decodeFromDialect: the value a field decodes to
DecodeValue(model, fieldName, value) ==
    IF FieldType(model, fieldName) \in {"array", "object"}
    THEN JsonParse(value).v
    ELSE IF FieldType(model, fieldName) = "boolean" /\ value = Str("1")
    THEN Bool(TRUE)
    ELSE IF FieldType(model, fieldName) = "boolean" /\ value = Str("0")
    THEN Bool(FALSE)
    ELSE value

DecodedFields(model, row) ==
    [i \in 1..Len(row) |->
        [key |-> row[i].key,
         val |-> DecodeValue(model, row[i].key, row[i].val)]]

\* a variant that keeps the keys holding null
AnyMember(member) == TRUE

\* if (decodedValues[fieldName] === null) delete decodedValues[fieldName]
NotNull(member) == member.val.k # "null"

\* decodeFromDialect on a row whose toJSON() is row, when nothing throws
Decode(model, row) == SelectSeq(DecodedFields(model, row), NotNull)

\* items.map(item => decodeFromDialect(dialect, item, model))
DecodeAll(model, rows) == [i \in 1..Len(rows) |-> Decode(model, rows[i])]
\* the first row, and in it the first field, at which the map throws
FirstThrowingRow(model, rows) ==
    CHOOSE i \in 1..Len(rows) :
        /\ DecodeThrows(model, rows[i])
        /\ \A j \in 1..(i - 1) : ~DecodeThrows(model, rows[j])
FirstThrowingField(model, row) ==
    row[CHOOSE f \in DecodeThrowsAt(model, row) :
           \A g \in DecodeThrowsAt(model, row) : f <= g].key
FirstThrow(model, rows) ==
    FirstThrowingField(model, rows[FirstThrowingRow(model, rows)])
AnyThrows(model, rows) == \E i \in 1..Len(rows) : DecodeThrows(model, rows[i])

\* config.params[name], undefined when the key is absent
Param(params, name) ==
    IF \E i \in 1..Len(params) : params[i].key = name
    THEN (CHOOSE q \in Range(params) : q.key = name).val
    ELSE Undefined

-----------------------------------------------------------------------------
(* The constructor: getSequelizeTypeFromJoi and _defineTable *)

\* a Sequelize type: STRING(length) (StringOf here), TEXT, TEXT('medium'), DATE, DOUBLE,
\* BOOLEAN, BLOB, INTEGER.UNSIGNED, or null for a type the mapper does not know
SequelizeType(name, length, size) ==
    [name |-> name, length |-> length, size |-> size]
StringOf(length) == SequelizeType("STRING", length, "")
TEXT(size) == SequelizeType("TEXT", 0, size)
NullType == SequelizeType("null", 0, "")

\* rules.filter(o => o.name === 'length' || o.name === 'max')
LengthRules(rules) ==
    LET IsLength(o) == o.name = "length" \/ o.name = "max"
    IN  SelectSeq(rules, IsLength)

\* a variant that takes the largest limit of the length and max rules
ColumnLengthMax(rules) ==
    IF LengthRules(rules) = <<>> THEN 0
    ELSE Greatest({LengthRules(rules)[i].limit : i \in 1..Len(LengthRules(rules))})

\* length: args.limit of the first length or max rule; 0 stands for undefined
ColumnLength(rules) ==
    IF LengthRules(rules) = <<>> THEN 0 ELSE LengthRules(rules)[1].limit

getSequelizeTypeFromJoi(dia, type, rules) ==
    CASE type = "string" ->
             IF ColumnLength(rules) # 0 THEN StringOf(ColumnLength(rules))
             ELSE TEXT("")
      [] type = "array" -> TEXT("")
      [] type = "object" -> TEXT("medium")
      [] type = "date" -> SequelizeType("DATE", 0, "")
      [] type = "number" -> SequelizeType("DOUBLE", 0, "")
      [] type = "boolean" -> SequelizeType("BOOLEAN", 0, "")
      [] type = "binary" -> SequelizeType("BLOB", 0, "")
      [] type = "alternatives" ->
             IF ColumnLength(rules) # 0 THEN StringOf(ColumnLength(rules))
             ELSE TEXT("medium")
      [] OTHER -> NullType

\* the rules _defineTable hands to the mapper
RulesOf(field) ==
    IF field.hasAlternatives THEN field.alternativeRules
    ELSE IF field.hasMatches THEN field.matchRules
    ELSE field.rules

\* output: the properties a column is defined with; has holds the names of
\* those that are set
Output(type) ==
    [type |-> type, primaryKey |-> FALSE, autoIncrement |-> FALSE,
     unique |-> "", defaultValue |-> Undefined, allowNull |-> TRUE,
     has |-> {"type"}]

\* if (fieldName === 'id')
IdColumn(output, fieldName) ==
    IF fieldName = "id"
    THEN [output EXCEPT !.primaryKey = TRUE, !.autoIncrement = TRUE,
                        !.type = SequelizeType("INTEGER.UNSIGNED", 0, ""),
                        !.has = @ \cup {"primaryKey", "autoIncrement"}]
    ELSE output

\* a variant that names the unique constraint after the field
UniqueColumnPerField(schema, output, fieldName) ==
    IF IndexOf(schema.keys, fieldName) # -1
    THEN [output EXCEPT !.unique = fieldName, !.has = @ \cup {"unique"}]
    ELSE output

\* if (schema.keys.indexOf(fieldName) !== -1) output.unique = 'uniquerow'
UniqueColumn(schema, output, fieldName) ==
    IF IndexOf(schema.keys, fieldName) # -1
    THEN [output EXCEPT !.unique = "uniquerow", !.has = @ \cup {"unique"}]
    ELSE output

\* tableFields[fieldName]
TableField(dia, schema, fieldName) ==
    UniqueColumn(schema,
        IdColumn(Output(getSequelizeTypeFromJoi(dia,
                            schema.describe[fieldName].type,
                            RulesOf(schema.describe[fieldName]))),
                 fieldName),
        fieldName)

\* the arguments of this.client.define(tableName, tableFields, tableOptions)
DefineTable(dia, pfx, schema) ==
    [tableName |-> pfx \o schema.tableName,
     tableFields |-> [f \in Range(schema.fields) |-> TableField(dia, schema, f)],
     tableOptions |-> [timestamps |-> FALSE, hasIndexes |-> schema.hasIndexes,
                       indexes |-> schema.indexes]]

\* the define calls MODEL_NAMES.forEach makes over a registry
DefinedTables(dia, pfx, schemas) ==
    [i \in 1..Len(schemas) |-> DefineTable(dia, pfx, schemas[i])]

-----------------------------------------------------------------------------
(* The adapter after construction *)

\* this.tables[name] is defined
TableKnown(tbls, name) == name \in tbls

\* the models in the order MODEL_NAMES lists them
SchemaRegistry == <<TestModel, JobModel, TemplateModel>>
ConstructedTables == {Schemas[m].tableName : m \in MODEL_NAMES}
ConstructedModels ==
    [t \in ConstructedTables |->
        Schemas[CHOOSE m \in MODEL_NAMES : Schemas[m].tableName = t]]

-----------------------------------------------------------------------------
(* The requests a caller may make (bounded) *)

\* most keys a params object holds
MaxParams == 2

Dialects == {"sqlite", "postgres"}
TableNames == {"testModels", "jobs", "templates", "tableUnicorn"}

NoSearch ==
    [present |-> FALSE, field |-> Undefined, keyword |-> Undefined,
     inverse |-> FALSE]
Search(f, kw, inv) ==
    [present |-> TRUE, field |-> f, keyword |-> kw, inverse |-> inv]
NoPaginate == [present |-> FALSE, count |-> 0, page |-> 0]
Paginate(c, pg) == [present |-> TRUE, count |-> c, page |-> pg]

\* a config holding only a table name and params
Config(table, params) ==
    [table |-> table, params |-> params, search |-> NoSearch,
     sort |-> Undefined, sortBy |-> Undefined, paginate |-> NoPaginate,
     startTime |-> Undefined, endTime |-> Undefined, timeKey |-> Undefined,
     groupBy |-> Undefined, exclude |-> Undefined,
     aggregationField |-> Undefined, getCount |-> FALSE,
     queries |-> <<>>, replacements |-> <<>>, rawResponse |-> Undefined,
     ddlSyncEnabled |-> Undefined]

KV(k, v) == [key |-> k, val |-> v]

ParamKeys == {"name", "namespace", "bogus", "distinct"}
ParamValues ==
    {Str("name"), OpStr("gt", "5"), List(<<Num(1), Num(2)>>)}
ParamPairs == {KV(k, v) : k \in ParamKeys, v \in ParamValues}

\* params objects of at most n keys, in every key order
ParamSeqs(n) ==
    UNION {{p \in [1..m -> ParamPairs] :
               \A i, j \in 1..m : i # j => p[i].key # p[j].key} : m \in 0..n}

FewParams ==
    {<<>>, <<KV("name", Str("name"))>>, <<KV("namespace", List(<<Num(1), Num(2)>>))>>,
     <<KV("bogus", Str("name"))>>}

SearchFields ==
    {Str("name"), Str("bogus"), List(<<Str("namespace"), Str("name")>>),
     List(<<Str("name"), Str("bogus")>>)}
SearchKeywords ==
    {Undefined, Str(""), Str("%foo%"), Num(5),
     List(<<Str("foo"), Str("screwdriver")>>),
     List(<<Num(5), Str("foo")>>), List(<<Str("foo"), Num(5)>>)}
Searches ==
    {Search(f, kw, inv) : f \in SearchFields, kw \in SearchKeywords,
                          inv \in BOOLEAN}

Times == {Undefined, Str("2019-01-28T11:00:00.000Z")}
FieldRefs == {Undefined, Str("name"), Str("bogus")}
FieldLists == {Undefined, List(<<Str("name")>>), List(<<Str("bogus")>>)}
Sorts == {Undefined, Str("ascending"), Str("descending")}
Pages == {NoPaginate, Paginate(10, 1), Paginate(10, 2), Paginate(25, 3)}

\* scans over params, sort and sortBy
ParamScans ==
    {[Config(t, p) EXCEPT !.sort = s, !.sortBy = sb] :
        t \in TableNames, p \in ParamSeqs(MaxParams), s \in Sorts \ {Str("descending")},
        sb \in FieldRefs}

\* scans over the search spec
SearchScans ==
    {[Config(t, p) EXCEPT !.search = se, !.startTime = st, !.timeKey = Str("name")] :
        t \in {"testModels", "jobs"}, p \in FewParams, se \in Searches,
        st \in Times}

\* scans over the time range, groupBy, exclude, aggregationField and getCount
ShapeScans ==
    {[Config(t, p) EXCEPT !.startTime = st, !.endTime = en, !.timeKey = tk,
                          !.groupBy = gb, !.exclude = ex,
                          !.aggregationField = ag, !.getCount = gc] :
        t \in {"jobs", "templates"},
        p \in {<<>>, <<KV("name", Str("name"))>>, <<KV("distinct", Str("name"))>>},
        st \in Times, en \in Times, tk \in FieldRefs, gb \in FieldLists,
        ex \in FieldLists, ag \in FieldRefs, gc \in BOOLEAN}

\* scans over pagination and direction
PageScans ==
    {[Config(t, <<>>) EXCEPT !.paginate = pg, !.sort = s, !.getCount = gc] :
        t \in TableNames, pg \in Pages, s \in Sorts, gc \in BOOLEAN}

\* grouped scans that also carry params, a search and a time range
GroupedScans ==
    {[Config("templates", <<KV("namespace", Str("name"))>>) EXCEPT
          !.search = Search(Str("name"), Str("%foo%"), FALSE),
          !.startTime = st, !.timeKey = Str("createTime"),
          !.groupBy = gb, !.exclude = ex] :
        st \in Times,
        gb \in {List(<<Str("name")>>), List(<<Str("namespace"), Str("name")>>)},
        ex \in {Undefined, List(<<Str("id"), Str("createTime")>>)}}

ScanConfigs ==
    ParamScans \cup SearchScans \cup ShapeScans \cup PageScans \cup GroupedScans

\* values of an array field and of an object field
ArrayValues ==
    {Null, List(<<>>), List(<<Num(1), Num(2), Num(3)>>),
     List(<<List(<<Num(1)>>), Null, Str("a"), Obj(<<>>)>>)}
ObjectValues ==
    {Null, Obj(<<>>),
     Obj(<<Str("a"), List(<<Obj(<<>>)>>), Str("b"), Null, Str("c"), Bool(TRUE)>>)}
\* records holding an array and an object field
JsonRecords ==
    {<<KV("id", Num(1)), KV("arr", a), KV("obj", o)>> :
        a \in ArrayValues, o \in ObjectValues}
\* records some of whose values are promises
PromisedRecords ==
    {<<KV("arr", Promised(List(<<Num(1), Num(2), Num(3)>>)))>>,
     <<KV("id", Num(1)), KV("arr", Promised(List(<<Num(1), Num(2)>>))),
       KV("name", Promised(Str("foo")))>>,
     <<KV("id", Promised(Num(1))), KV("obj", Obj(<<Str("a"), Num(1)>>))>>}
RecordParams ==
    {<<>>, <<KV("id", Num(1))>>, <<KV("name", Str("foo"))>>,
     <<KV("id", Null), KV("name", Str("foo"))>>,
     <<KV("id", Num(1)), KV("arr", List(<<Num(1), Num(2)>>))>>,
     <<KV("arr", List(<<Num(1), Num(2)>>)), KV("name", Str("foo"))>>}
    \cup JsonRecords \cup PromisedRecords
CrudConfigs == {Config(t, p) : t \in TableNames, p \in RecordParams}

\* one entry of config.queries: { dbType, query }
QueryFor(dbType, query) == [dbType |-> dbType, query |-> query]
QueryLists ==
    {<<>>,
     <<QueryFor("postgres", "SELECT pg")>>,
     <<QueryFor("mysql", "SELECT my")>>,
     <<QueryFor("sqlite", "SELECT lite"), QueryFor("postgres", "SELECT pg")>>,
     <<QueryFor("postgres", "SELECT pg"), QueryFor("mysql", "SELECT my"),
       QueryFor("sqlite", "SELECT lite")>>,
     <<QueryFor("sqlite", "SELECT lite"), QueryFor("sqlite", "SELECT other")>>}
Replacements == {<<>>, <<KV("name", Str("foo"))>>}
\* the requests of query
QueryConfigs ==
    {[Config(t, <<>>) EXCEPT !.queries = q, !.replacements = r,
                             !.rawResponse = raw] :
        t \in {"testModels", "jobs", "tableUnicorn"}, q \in QueryLists,
        r \in Replacements, raw \in {Undefined, Bool(FALSE), Bool(TRUE)}}
\* the arguments of setup
SetupConfigs ==
    {[Config("", <<>>) EXCEPT !.ddlSyncEnabled = v] :
        v \in {Undefined, Str("true"), Str("false"), Bool(TRUE)}}

\* what row.toJSON() gives for rows the backend may hold
GoodRow ==
    <<KV("id", Num(1)), KV("str", Str("foo")), KV("bool", Str("1")),
      KV("arr", JsonText(List(<<Num(1), Num(2), Num(3)>>))),
      KV("obj", JsonText(Obj(<<Str("a"), List(<<>>)>>)))>>
NullsRow ==
    <<KV("id", Num(2)), KV("str", Null), KV("bool", Str("0")),
      KV("arr", Null), KV("obj", JsonText(Null)), KV("name", Str("bar"))>>
\* an array field holding the text [1
TruncatedRow ==
    <<KV("id", Num(3)), KV("arr", TextOf(<<Punct("["), Num(1)>>)),
      KV("name", Str("baz"))>>
\* an object field holding the text oops
BareWordRow ==
    <<KV("id", Num(4)), KV("name", Str("qux")), KV("obj", Str("oops"))>>
JobRow == <<KV("id", Num(1)), KV("name", Str("main"))>>
NamelessJobRow == <<KV("id", Num(2)), KV("name", Null)>>
TemplateRow ==
    <<KV("id", Num(1)), KV("namespace", Str("chef")), KV("name", Str("foo")),
      KV("trusted", Str("0")), KV("createTime", Null)>>

\* the rows a table may hold, and the row lists a finder may answer
StoredRows(table) ==
    CASE table = "testModels" ->
            {GoodRow, NullsRow, TruncatedRow, BareWordRow}
            \cup {Encode(TestModel, rec) : rec \in JsonRecords}
      [] table = "jobs" -> {JobRow, NamelessJobRow}
      [] table = "templates" -> {TemplateRow}
      [] OTHER -> {}
RowLists(table) ==
    CASE table = "testModels" ->
            {<<>>, <<GoodRow>>, <<GoodRow, NullsRow>>, <<GoodRow, TruncatedRow>>,
             <<BareWordRow, GoodRow>>}
      [] table = "jobs" -> {<<>>, <<JobRow, NamelessJobRow>>}
      [] table = "templates" -> {<<>>, <<TemplateRow>>}
      [] OTHER -> {<<>>}
\* the count findAndCountAll may answer beside rows
Counts(rows) == {Len(rows), Len(rows) + 10}

\* the backend's answers
Response(kind, rows, count) ==
    [kind |-> kind, rows |-> rows, count |-> count, err |-> NoErr]
NoResponse == Response("none", <<>>, 0)
\* the backend operation rejects with err
Rejection(err) == [Response("error", <<>>, 0) EXCEPT !.err = err]
\* errors a backend operation may reject with
BackendErrors ==
    {Err("errorCommunicatingToApi", ""), Err("SequelizeTimeoutError", "")}

Calls ==
    {[op |-> "scan", config |-> c] : c \in ScanConfigs}
    \cup {[op |-> o, config |-> c] :
             o \in {"get", "save", "remove", "update"}, c \in CrudConfigs}
    \cup {[op |-> "query", config |-> c] : c \in QueryConfigs}
    \cup {[op |-> "setup", config |-> c] : c \in SetupConfigs}

-----------------------------------------------------------------------------
(* The state machine *)

\* the argument of findByPk, findOne, create, destroy or update
Args(id, where, item) == [id |-> id, where |-> where, item |-> item]
NoArgs == Args(Undefined, <<>>, <<>>)

\* the arguments of sequelize.query(query, queryParams); model stands for
\* this.client.models[config.table]
Sql(query, replacements, mapToModel, model) ==
    [query |-> query, replacements |-> replacements,
     mapToModel |-> mapToModel, model |-> model]
NoSql == Sql("", <<>>, FALSE, "")

\* a call that has not started: what is local to one call
Fresh(c) ==
    [call |-> c, pc |-> "pending", log |-> <<>>, plan |-> NoPlan,
     args |-> NoArgs, sql |-> NoSql, searchWhere |-> EmptyWhere,
     awaited |-> <<>>, response |-> NoResponse, result |-> Unsettled]
\* no call: the value of parked when one call at most is in flight
NoCall == [op |-> "none", config |-> Config("", <<>>)]
Idle == [Fresh(NoCall) EXCEPT !.pc = "idle"]

\* the adapter as new Datastore({ dialect }) leaves it
Constructed ==
    /\ prefix = ""
    /\ registry = SchemaRegistry
    /\ tables = ConstructedTables
    /\ models = ConstructedModels
    /\ defined = DefinedTables(dialect, "", SchemaRegistry)

Init ==
    /\ dialect \in Dialects
    /\ Constructed
    /\ call \in Calls
    /\ pc = "pending"
    /\ log = <<>>
    /\ plan = NoPlan
    /\ args = NoArgs
    /\ sql = NoSql
    /\ searchWhere = EmptyWhere
    /\ awaited = <<>>
    /\ response = NoResponse
    /\ result = Unsettled
    /\ parked = Idle
    /\ started = 1

\* a variant that encodes the request before it rejects
RejectInvalidTableAfterEncode ==
    /\ result' = Outcome("rejected", Err("Invalid table name", call.config.table))
    /\ pc' = "settled"
    /\ log' = Append(log, "encode")
    /\ UNCHANGED <<awaited, response,
                   adapter, session, sql, call, plan, args,
                   searchWhere>>

\* return Promise.reject(new Error(`Invalid table name "${config.table}"`))
RejectInvalidTable ==
    /\ result' = Outcome("rejected", Err("Invalid table name", call.config.table))
    /\ pc' = "settled"
    /\ UNCHANGED <<awaited, response,
                   adapter, session, sql, call, log, plan, args,
                   searchWhere>>

\* Promise.all(encodedValues) at the call of encodeToDialect: a value that
\* is no promise counts as fulfilled
PromiseAll(content) ==
    [i \in 1..Len(content) |->
        IF content[i].val.k = "promise" THEN "pending" ELSE "fulfilled"]
\* a variant that does not wait for the pending values
NoneRejected(states) == \A i \in 1..Len(states) : states[i] # "rejected"
AllFulfilled(states) == \A i \in 1..Len(states) : states[i] = "fulfilled"

\* _get, up to the backend call
Get ==
    /\ pc = "pending"
    /\ call.op = "get"
    /\ IF ~TableKnown(tables, call.config.table)
       THEN RejectInvalidTable
       ELSE /\ IF Param(call.config.params, "id") = Undefined
               THEN /\ log' = Append(log, "findOne")
                    /\ args' = Args(Undefined, call.config.params, <<>>)
               ELSE /\ log' = Append(log, "findByPk")
                    /\ args' = Args(Param(call.config.params, "id"), <<>>, <<>>)
            /\ pc' = "awaiting"
            /\ UNCHANGED <<awaited, response,
                           adapter, session, sql, call, plan,
                           searchWhere, result>>

\* _save, up to the call of encodeToDialect
Save ==
    /\ pc = "pending"
    /\ call.op = "save"
    /\ IF ~TableKnown(tables, call.config.table)
       THEN RejectInvalidTable
       ELSE /\ log' = Append(log, "encode")
            /\ awaited' = PromiseAll(call.config.params)
            /\ pc' = "encoding"
            /\ UNCHANGED <<response, adapter, session, sql, call,
                           plan, args, searchWhere, result>>

\* .then(item => table.create(item))
SaveCreate ==
    /\ pc = "encoding"
    /\ call.op = "save"
    /\ AllFulfilled(awaited)
    /\ log' = Append(log, "create")
    /\ args' = Args(Undefined, <<>>,
                    Encode(models[call.config.table], call.config.params))
    /\ pc' = "awaiting"
    /\ UNCHANGED <<awaited, response,
                   adapter, session, sql, call, plan, searchWhere,
                   result>>

\* _remove, up to the backend call
Remove ==
    /\ pc = "pending"
    /\ call.op = "remove"
    /\ IF ~TableKnown(tables, call.config.table)
       THEN RejectInvalidTable
       ELSE /\ log' = Append(log, "destroy")
            /\ args' = Args(Undefined,
                            <<KV("id", Param(call.config.params, "id"))>>, <<>>)
            /\ pc' = "awaiting"
            /\ UNCHANGED <<awaited, response,
                           adapter, session, sql, call, plan,
                           searchWhere, result>>

\* _update, up to the call of encodeToDialect
Update ==
    /\ pc = "pending"
    /\ call.op = "update"
    /\ IF ~TableKnown(tables, call.config.table)
       THEN RejectInvalidTable
       ELSE /\ log' = Append(log, "encode")
            /\ awaited' = PromiseAll(call.config.params)
            /\ pc' = "encoding"
            /\ UNCHANGED <<response, adapter, session, sql, call,
                           plan, args, searchWhere, result>>

\* .then(item => table.update(item, { where: { id } }))
UpdateApply ==
    /\ pc = "encoding"
    /\ call.op = "update"
    /\ AllFulfilled(awaited)
    /\ log' = Append(log, "update")
    /\ args' = Args(Undefined, <<KV("id", Param(call.config.params, "id"))>>,
                    Encode(models[call.config.table], call.config.params))
    /\ pc' = "awaiting"
    /\ UNCHANGED <<awaited, response,
                   adapter, session, sql, call, plan, searchWhere,
                   result>>

\* _scan after the build: the error, or the call of findAll / findAndCountAll
ScanSettle(built) ==
    /\ searchWhere' = built.searchWhere
    /\ IF Failed(built)
       THEN /\ result' = built.out
            /\ pc' = "settled"
            /\ UNCHANGED <<log, plan>>
       ELSE /\ log' = Append(log, Finder(call.config))
            /\ plan' = PlanOf(built, call.config)
            /\ pc' = "awaiting"
            /\ UNCHANGED result
    /\ UNCHANGED <<awaited, response,
                   adapter, session, sql, call, args>>

\* _scan, up to the backend call
Scan ==
    /\ pc = "pending"
    /\ call.op = "scan"
    /\ IF ~TableKnown(tables, call.config.table)
       THEN RejectInvalidTable
       ELSE ScanSettle(ScanBuild(dialect, prefix, models[call.config.table],
                                 call.config))

\* a variant that takes the first entry of queries whatever its dbType
FindQueryFirst(queries, dia) == IF queries = <<>> THEN 0 ELSE 1

\* config.queries.find(q => q.dbType === dialect): the position of the first
\* entry for the dialect, 0 standing for undefined
FindQuery(queries, dia) ==
    IF \E i \in 1..Len(queries) : queries[i].dbType = dia
    THEN Least({i \in 1..Len(queries) : queries[i].dbType = dia})
    ELSE 0

\* this.client.models[config.table]
ClientModel(tableName) ==
    IF \E i \in 1..Len(defined) : defined[i].tableName = tableName
    THEN tableName ELSE "undefined"

\* queryParams: replacements, and model and mapToModel unless rawResponse
QueryParams(config, query) ==
    IF Truthy(config.rawResponse)
    THEN Sql(query, config.replacements, FALSE, "")
    ELSE Sql(query, config.replacements, TRUE, ClientModel(config.table))

\* return Promise.reject(new Error(`No query found for "${dialect}" database`))
RejectNoQuery ==
    /\ result' = Outcome("rejected", Err("No query found", dialect))
    /\ pc' = "settled"
    /\ UNCHANGED <<awaited, response, adapter, session, sql, call, log, plan,
                   args, searchWhere>>

\* _query, up to the backend call
Query ==
    /\ pc = "pending"
    /\ call.op = "query"
    /\ IF ~TableKnown(tables, call.config.table)
       THEN RejectInvalidTable
       ELSE IF FindQuery(call.config.queries, dialect) = 0
       THEN RejectNoQuery
       ELSE /\ sql' = QueryParams(call.config,
                          call.config.queries[FindQuery(call.config.queries,
                                                        dialect)].query)
            /\ log' = Append(log, "query")
            /\ pc' = "awaiting"
            /\ UNCHANGED <<awaited, response, adapter, session, call, plan, args,
                           searchWhere, result>>

\* setup: this.client.sync({ alter: true }) when ddlSyncEnabled === 'true',
\* else Promise.resolve()
Setup ==
    /\ pc = "pending"
    /\ call.op = "setup"
    /\ IF call.config.ddlSyncEnabled = Str("true")
       THEN /\ log' = Append(log, "sync")
            /\ pc' = "awaiting"
            /\ UNCHANGED result
       ELSE /\ result' = Resolved(NoValue)
            /\ pc' = "settled"
            /\ UNCHANGED log
    /\ UNCHANGED <<awaited, response, adapter, session, sql, call, plan, args,
                   searchWhere>>

\* a promise among the values of params is fulfilled
FieldFulfils ==
    /\ pc = "encoding"
    /\ \E i \in 1..Len(awaited) :
          /\ awaited[i] = "pending"
          /\ awaited' = [awaited EXCEPT ![i] = "fulfilled"]
    /\ UNCHANGED <<response, adapter, session, sql, call, pc, log,
                   plan, args, searchWhere, result>>

\* a promise among the values of params is rejected: Promise.all rejects,
\* both then-callbacks are skipped and the handler's promise rejects
FieldRejects ==
    /\ pc = "encoding"
    /\ \E i \in 1..Len(awaited) :
          /\ awaited[i] = "pending"
          /\ awaited' = [awaited EXCEPT ![i] = "rejected"]
          /\ result' = Outcome("rejected",
                                Err("rejected value", call.config.params[i].key))
    /\ pc' = "settled"
    /\ UNCHANGED <<response, adapter, session, sql, call, log, plan,
                   args, searchWhere>>

\* a variant that rejects when the finder answers no row
GetDecodedOrMissing(item) ==
    IF item.kind = "null"
    THEN Outcome("rejected", Err("not found", call.config.table))
    ELSE IF DecodeThrows(models[call.config.table], item.rows[1])
    THEN Outcome("rejected",
                 Err("SyntaxError",
                     FirstThrowingField(models[call.config.table], item.rows[1])))
    ELSE Resolved(RecordValue(Decode(models[call.config.table], item.rows[1])))

\* finder.then(item => decodeFromDialect(dialect, item, model))
GetDecoded(item) ==
    IF item.kind = "null" THEN Resolved(NullValue)
    ELSE IF DecodeThrows(models[call.config.table], item.rows[1])
    THEN Outcome("rejected",
                 Err("SyntaxError",
                     FirstThrowingField(models[call.config.table], item.rows[1])))
    ELSE Resolved(RecordValue(Decode(models[call.config.table], item.rows[1])))

GetDecode ==
    /\ pc = "awaiting"
    /\ call.op = "get"
    /\ \E item \in {Response("null", <<>>, 0)}
                    \cup {Response("item", <<row>>, 0) :
                             row \in StoredRows(call.config.table)} :
          /\ response' = item
          /\ result' = GetDecoded(item)
    /\ pc' = "settled"
    /\ UNCHANGED <<awaited, adapter, session, sql, call, log, plan,
                   args, searchWhere>>

\* .then(row => row.get({ plain: true })) on the row create answers
SaveRow ==
    /\ pc = "awaiting"
    /\ call.op = "save"
    /\ response' = Response("item", <<args.item>>, 0)
    /\ result' = Resolved(RecordValue(args.item))
    /\ pc' = "settled"
    /\ UNCHANGED <<awaited, adapter, session, sql, call, log, plan,
                   args, searchWhere>>

\* a variant in which remove also drops the table from this.tables
RemoveDoneUnregisters ==
    /\ pc = "awaiting"
    /\ call.op = "remove"
    /\ \E affected \in {0, 1} : response' = Response("count", <<>>, affected)
    /\ result' = Resolved(NullValue)
    /\ pc' = "settled"
    /\ tables' = tables \ {call.config.table}
    /\ UNCHANGED <<awaited, dialect, prefix, models, registry, defined, session,
                   sql, call, log, plan, args, searchWhere>>

\* .then(() => null)
RemoveDone ==
    /\ pc = "awaiting"
    /\ call.op = "remove"
    /\ \E affected \in {0, 1} : response' = Response("count", <<>>, affected)
    /\ result' = Resolved(NullValue)
    /\ pc' = "settled"
    /\ UNCHANGED <<awaited, adapter, session, sql, call, log, plan,
                   args, searchWhere>>

\* a variant that resolves to the encoded item
UpdateDoneEncoded ==
    /\ pc = "awaiting"
    /\ call.op = "update"
    /\ \E affected \in {0, 1} : response' = Response("count", <<>>, affected)
    /\ result' = Resolved(RecordValue(args.item))
    /\ pc' = "settled"
    /\ UNCHANGED <<awaited, adapter, session, sql, call, log, plan,
                   args, searchWhere>>

\* .then(() => userData)
UpdateDone ==
    /\ pc = "awaiting"
    /\ call.op = "update"
    /\ \E affected \in {0, 1} : response' = Response("count", <<>>, affected)
    /\ result' = Resolved(RecordValue(call.config.params))
    /\ pc' = "settled"
    /\ UNCHANGED <<awaited, adapter, session, sql, call, log, plan,
                   args, searchWhere>>

\* the then-callback of findAll / findAndCountAll: every row is decoded
ScanDecoded(answer) ==
    IF AnyThrows(models[call.config.table], answer.rows)
    THEN Outcome("rejected",
                 Err("SyntaxError",
                     FirstThrow(models[call.config.table], answer.rows)))
    ELSE IF call.config.getCount
    THEN Resolved(CountedValue(answer.count,
                               DecodeAll(models[call.config.table], answer.rows)))
    ELSE Resolved(RowsValue(DecodeAll(models[call.config.table], answer.rows)))

ScanDecode ==
    /\ pc = "awaiting"
    /\ call.op = "scan"
    /\ \E rows \in RowLists(call.config.table) :
          \E count \in IF call.config.getCount THEN Counts(rows) ELSE {0} :
             /\ response' =
                   Response(IF call.config.getCount THEN "counted" ELSE "rows",
                            rows, count)
             /\ result' =
                   ScanDecoded(Response(IF call.config.getCount
                                        THEN "counted" ELSE "rows", rows, count))
    /\ pc' = "settled"
    /\ UNCHANGED <<awaited, adapter, session, sql, call, log, plan,
                   args, searchWhere>>

\* the then-callback of sequelize.query: unless rawResponse, every row is
\* handed to decodeFromDialect and what that returns is dropped; data is
\* returned as the backend gave it
QueryDecoded(answer) ==
    IF ~Truthy(call.config.rawResponse)
       /\ AnyThrows(models[call.config.table], answer.rows)
    THEN Outcome("rejected",
                 Err("SyntaxError",
                     FirstThrow(models[call.config.table], answer.rows)))
    ELSE Resolved(RowsValue(answer.rows))

QueryDone ==
    /\ pc = "awaiting"
    /\ call.op = "query"
    /\ \E rows \in RowLists(call.config.table) :
          /\ response' = Response("rows", rows, 0)
          /\ result' = QueryDecoded(Response("rows", rows, 0))
    /\ pc' = "settled"
    /\ UNCHANGED <<awaited, adapter, session, sql, call, log, plan,
                   args, searchWhere>>

\* this.client.sync resolves
SetupSynced ==
    /\ pc = "awaiting"
    /\ call.op = "setup"
    /\ response' = Response("synced", <<>>, 0)
    /\ result' = Resolved(NoValue)
    /\ pc' = "settled"
    /\ UNCHANGED <<awaited, adapter, session, sql, call, log, plan,
                   args, searchWhere>>

\* a variant in which the handler makes the backend call once more after a
\* first rejection
BackendRejectsRetried ==
    /\ pc = "awaiting"
    /\ \E err \in BackendErrors :
          /\ response' = Rejection(err)
          /\ IF response.kind = "error"
             THEN /\ result' = Outcome("rejected", err)
                  /\ pc' = "settled"
                  /\ UNCHANGED log
             ELSE /\ log' = Append(log, log[Len(log)])
                  /\ UNCHANGED <<result, pc>>
    /\ UNCHANGED <<awaited, adapter, session, sql, call, plan, args,
                   searchWhere>>

\* the backend operation rejects: no callback runs and the handler's promise
\* rejects with the backend's error
BackendRejects ==
    /\ pc = "awaiting"
    /\ \E err \in BackendErrors :
          /\ response' = Rejection(err)
          /\ result' = Outcome("rejected", err)
    /\ pc' = "settled"
    /\ UNCHANGED <<awaited, adapter, session, sql, call, log, plan,
                   args, searchWhere>>

Next ==
    \/ Get
    \/ Save
    \/ FieldFulfils
    \/ FieldRejects
    \/ SaveCreate
    \/ SaveRow
    \/ Remove
    \/ RemoveDone
    \/ Update
    \/ UpdateApply
    \/ UpdateDone
    \/ GetDecode
    \/ Scan
    \/ ScanDecode
    \/ Query
    \/ QueryDone
    \/ Setup
    \/ SetupSynced
    \/ BackendRejects

Spec == Init /\ [][Next]_vars

-----------------------------------------------------------------------------
(* Several calls on one adapter.  A handler runs to its first backend call *)
(* without interruption and each promise callback runs likewise, so calls  *)
(* interleave at these points only: an action is one such run, and Switch  *)
(* hands the turn to the other call in flight.                             *)

\* most calls made on the adapter in one behaviour
MaxCalls == 3

SessionCalls ==
    {[op |-> "scan",
      config |-> Config("templates", <<KV("namespace", Str("name")),
                                       KV("name", Str("name"))>>)],
     [op |-> "scan", config |-> Config("tableUnicorn", <<>>)],
     [op |-> "get", config |-> Config("jobs", <<KV("id", Num(1))>>)],
     [op |-> "save",
      config |-> Config("testModels",
                        <<KV("arr", Promised(List(<<Num(1), Num(2), Num(3)>>)))>>)],
     [op |-> "remove", config |-> Config("testModels", <<KV("id", Num(1))>>)],
     [op |-> "update",
      config |-> Config("testModels",
                        <<KV("id", Num(1)), KV("arr", List(<<Num(1), Num(2)>>))>>)],
     [op |-> "query",
      config |-> [Config("testModels", <<>>) EXCEPT
                     !.queries = <<QueryFor("sqlite", "SELECT lite"),
                                   QueryFor("postgres", "SELECT pg")>>]],
     [op |-> "setup", config |-> [Config("", <<>>) EXCEPT
                                     !.ddlSyncEnabled = Str("true")]]}

\* what is local to the call being handled
Current ==
    [call |-> call, pc |-> pc, log |-> log, plan |-> plan, args |-> args,
     sql |-> sql, searchWhere |-> searchWhere, awaited |-> awaited,
     response |-> response, result |-> result]
\* the call whose locals are l gets the turn
Resume(l) ==
    /\ call' = l.call
    /\ pc' = l.pc
    /\ log' = l.log
    /\ plan' = l.plan
    /\ args' = l.args
    /\ sql' = l.sql
    /\ searchWhere' = l.searchWhere
    /\ awaited' = l.awaited
    /\ response' = l.response
    /\ result' = l.result

SessionInit ==
    /\ dialect \in Dialects
    /\ Constructed
    /\ \E c \in SessionCalls :
          /\ call = c
          /\ pc = "pending"
          /\ log = <<>>
          /\ plan = NoPlan
          /\ args = NoArgs
          /\ sql = NoSql
          /\ searchWhere = EmptyWhere
          /\ awaited = <<>>
          /\ response = NoResponse
          /\ result = Unsettled
    /\ parked = Idle
    /\ started = 1

\* the caller makes another call; the one at hand waits for its callback
NewCall ==
    /\ started < MaxCalls
    /\ parked.pc \in {"idle", "settled"}
    /\ \E c \in SessionCalls : Resume(Fresh(c))
    /\ parked' = Current
    /\ started' = started + 1
    /\ UNCHANGED adapter

\* the event loop runs the other call's next callback
Switch ==
    /\ parked.pc \notin {"idle", "settled"}
    /\ Resume(parked)
    /\ parked' = Current
    /\ UNCHANGED <<adapter, started>>

SessionNext ==
    \/ Next
    \/ NewCall
    \/ Switch

Session == SessionInit /\ [][SessionNext]_vars

-----------------------------------------------------------------------------
(* The constructor as a state machine, over bounded schema registries *)

AllDialects == Dialects \cup {"mysql"}
Prefixes == {"", "boo_"}

RuleLists ==
    {<<>>, <<Rule("max", 10)>>, <<Rule("length", 40)>>,
     <<Rule("max", 10), Rule("length", 40)>>,
     <<Rule("length", 40), Rule("max", 10)>>,
     <<Rule("min", 5), Rule("max", 64)>>, <<Rule("min", 5)>>,
     <<Rule("max", 0)>>}
\* fields that declare a default, as the tests' pipelines and
\* defaultValueTestModels do
DefaultedDescriptions ==
    {Defaulted(Describe("string", <<Rule("max", 10)>>), Str("ACTIVE"), TRUE),
     Defaulted(Describe("object", <<>>), Obj(<<>>), FALSE),
     Defaulted(Describe("string", <<>>), Str("Some description"), FALSE),
     Defaulted(Describe("binary", <<>>), Str("0010010101010"), FALSE)}
Descriptions ==
    {Describe("string", r) : r \in RuleLists}
    \cup {Describe(t, <<>>) :
             t \in {"array", "object", "date", "number", "boolean", "binary",
                    "any"}}
    \cup {Matches(<<Rule("max", 64)>>), Matches(<<>>),
          Alternatives(<<Rule("max", 64)>>)}
    \cup DefaultedDescriptions
IdDescriptions == {Describe("string", <<Rule("length", 40)>>), Describe("number", <<>>)}
KeyLists == {<<>>, <<"name">>, <<"name", "state">>, <<"id", "state">>}

\* a model of three fields as screwdriver-data-schema would hand it over
Described(id, name, state, keys, hasIx) ==
    [tableName |-> "pipelines", fields |-> <<"id", "name", "state">>,
     types |-> [id |-> id.type, name |-> name.type, state |-> state.type],
     hasIndexes |-> hasIx,
     indexes |-> IF hasIx THEN <<"name">> ELSE <<>>,
     hasRangeKeys |-> FALSE, rangeKeys |-> <<>>,
     keys |-> keys,
     describe |-> [id |-> id, name |-> name, state |-> state]]
DescribedModels ==
    {Described(id, name, state, keys, hasIx) :
        id \in IdDescriptions, name \in Descriptions,
        state \in DefaultedDescriptions \cup {Describe("string", <<>>)},
        keys \in KeyLists, hasIx \in BOOLEAN}
Registries == {<<m, JobModel>> : m \in DescribedModels}

ConstructInit ==
    /\ dialect \in AllDialects
    /\ prefix \in Prefixes
    /\ registry \in Registries
    /\ tables = {}
    /\ models = [t \in {} |-> JobModel]
    /\ defined = <<>>
    /\ pc = "constructing"
    /\ call = NoCall
    /\ log = <<>>
    /\ plan = NoPlan
    /\ args = NoArgs
    /\ sql = NoSql
    /\ searchWhere = EmptyWhere
    /\ awaited = <<>>
    /\ response = NoResponse
    /\ result = Unsettled
    /\ parked = Idle
    /\ started = 0

\* the model of the forEach turn at hand
NextSchema == registry[Len(defined) + 1]

\* one turn of MODEL_NAMES.forEach: _defineTable, then the two registrations
Construct ==
    /\ pc = "constructing"
    /\ Len(defined) < Len(registry)
    /\ defined' = Append(defined, DefineTable(dialect, prefix, NextSchema))
    /\ tables' = tables \cup {NextSchema.tableName}
    /\ models' = [t \in tables \cup {NextSchema.tableName} |->
                     IF t = NextSchema.tableName THEN NextSchema ELSE models[t]]
    /\ pc' = IF Len(defined) + 1 = Len(registry) THEN "pending"
             ELSE "constructing"
    /\ UNCHANGED <<dialect, prefix, registry, session, call, log, plan, args,
                   sql, searchWhere, awaited, response, result>>

Construction == ConstructInit /\ [][Construct]_vars

-----------------------------------------------------------------------------
(* Vocabulary of the properties *)

\* the handler has run on a scan of a registered table
ScanDone == call.op = "scan" /\ pc # "pending" /\ call.config.table \in tables
\* the scan reached findAll / findAndCountAll
ScanCalled == ScanDone /\ log # <<>>
\* the call failed before any backend operation
FailedEarly == pc = "settled" /\ result.state \in {"thrown", "rejected"} /\ log = <<>>

IsField(m, name) == name \in Range(m.fields)
IsFieldValue(m, v) == v.k = "str" /\ Text(v) \in Range(m.fields)

\* positions of params keys holding a scalar, other than distinct, that are no field
BadScalarKeys(m, params) ==
    {i \in 1..Len(params) :
        ~IsArray(params[i].val) /\ params[i].key # "distinct"
        /\ ~IsField(m, params[i].key)}
\* positions of a scalar distinct param naming no field
BadDistincts(m, params) ==
    {i \in 1..Len(params) :
        ~IsArray(params[i].val) /\ params[i].key = "distinct"
        /\ ~IsFieldValue(m, params[i].val)}
\* positions of params keys holding a list that are no field
BadListKeys(m, params) ==
    {i \in 1..Len(params) :
        IsArray(params[i].val) /\ params[i].key # "distinct"
        /\ ~IsField(m, params[i].key)}
ParamsBad(m, params) == BadScalarKeys(m, params) \cup BadDistincts(m, params) # {}

\* the search spec carries a field and a non-empty keyword
KeywordGiven(search) ==
    search.present /\ Truthy(search.field) /\ Truthy(search.keyword)
ListForm(search) == IsArray(search.field) \/ IsArray(search.keyword)
BadSearchFields(m, search) ==
    {i \in 1..Len(AsList(search.field)) : ~IsFieldValue(m, AsList(search.field)[i])}
AllStrings(seq) == \A i \in 1..Len(seq) : seq[i].k = "str"
PatternOp == IF dialect = "postgres" THEN "ILIKE" ELSE "LIKE"
NegatedPatternOp == IF dialect = "postgres" THEN "NOT ILIKE" ELSE "NOT LIKE"

\* the where entries the claims expect params alone to make
ExpectedParamKeys(params) ==
    {params[i].key : i \in {j \in 1..Len(params) :
        ~(params[j].key = "distinct" /\ ~IsArray(params[j].val))}}
ExpectedParamPred(v) ==
    IF IsArray(v) THEN OpsPred({OpVal("IN", v)}) ELSE ValPred(v)
ExpectedParamEnt(params) ==
    [k \in ExpectedParamKeys(params) |-> ExpectedParamPred(Param(params, k))]

\* fields outer, keywords inner
ExpectedOr(fields, keywords, op) ==
    [n \in 1..(Len(fields) * Len(keywords)) |->
        OrPred(Text(fields[((n - 1) \div Len(keywords)) + 1]), op,
               keywords[((n - 1) % Len(keywords)) + 1])]

NoTimeRange(config) == ~Truthy(config.startTime) /\ ~Truthy(config.endTime)

-----------------------------------------------------------------------------
\* C1: get, save, remove, update and scan on an unregistered table reject with
\* 'Invalid table name', and the call performs no backend table operation and
\* no encode/decode step.
C1_InvalidTableRejects ==
    (call.op \in {"get", "save", "remove", "update", "scan"}
       /\ pc # "pending" /\ call.config.table \notin tables) =>
        /\ pc = "settled"
        /\ result = Outcome("rejected", Err("Invalid table name", call.config.table))
        /\ log = <<>>
        /\ plan = NoPlan
        /\ args = NoArgs

C1_Witness ==
    /\ call.op = "update"
    /\ call.config.table = "tableUnicorn"
    /\ pc = "settled"
    /\ result.err.msg = "Invalid table name"

\* C2 as stated: any params key other than distinct that is no field, scalar
\* or list valued, makes the scan fail before findAll / findAndCountAll.
C2_AnyBadKeyFails ==
    (ScanDone /\ BadScalarKeys(models[call.config.table], call.config.params)
                 \cup BadListKeys(models[call.config.table], call.config.params) # {})
        => FailedEarly

\* C2 amended: a params key other than distinct that holds a scalar and is no
\* field makes the scan fail before findAll / findAndCountAll, with 'Invalid
\* param' naming the first such key unless an earlier scalar distinct names no
\* field ('Invalid distinct field'); a key holding a list is never validated:
\* 'Invalid param' always names a scalar-valued key.
C2_BadScalarKeyFails ==
    ScanDone =>
        LET m == models[call.config.table]
            ps == call.config.params
            bad == BadScalarKeys(m, ps)
            badD == BadDistincts(m, ps)
        IN  /\ bad # {} =>
                /\ FailedEarly
                /\ result.err =
                      IF badD # {} /\ Least(badD) < Least(bad)
                      THEN Err("Invalid distinct field", Text(ps[Least(badD)].val))
                      ELSE Err("Invalid param", ps[Least(bad)].key)
            /\ result.err.msg = "Invalid param" =>
                \E i \in bad : ps[i].key = result.err.arg
            /\ ScanCalled =>
                \A i \in BadListKeys(m, ps) :
                    searchWhere.ent[ps[i].key] = OpsPred({OpVal("IN", ps[i].val)})

C2_Witness ==
    /\ ScanCalled
    /\ BadListKeys(models[call.config.table], call.config.params) # {}
    /\ log = <<"findAll">>


\* C3 as stated: a search spec whose field (or a field of its list) is no
\* field of the model makes the scan fail before the backend is queried,
\* whether or not it carries a keyword.
C3_AnyBadSearchFieldFails ==
    (ScanDone /\ call.config.search.present
     /\ BadSearchFields(models[call.config.table], call.config.search) # {})
        => FailedEarly

\* C3 amended: when the search spec carries a non-empty keyword and its field
\* (or a field of its list) is no field of the model, the scan fails before
\* the backend is queried, with 'Invalid search field' naming the first such
\* field unless params validation failed first; a search spec whose keyword
\* is absent or empty is ignored and its field is not validated.
C3_BadSearchFieldFails ==
    ScanDone =>
        LET m == models[call.config.table]
            se == call.config.search
            bad == BadSearchFields(m, se)
        IN  /\ (KeywordGiven(se) /\ bad # {}) =>
                /\ FailedEarly
                /\ ~ParamsBad(m, call.config.params) =>
                      result.err = Err("Invalid search field",
                                       Text(AsList(se.field)[Least(bad)]))
            /\ result.err.msg = "Invalid search field" =>
                /\ KeywordGiven(se)
                /\ \E i \in bad : result.err.arg = Text(AsList(se.field)[i])
            /\ (ScanCalled /\ ~KeywordGiven(se)) =>
                /\ ~searchWhere.hasOr
                /\ searchWhere.ent = ExpectedParamEnt(call.config.params)

C3_Witness ==
    /\ ScanDone
    /\ IsArray(call.config.search.field)
    /\ pc = "settled"
    /\ result.err = Err("Invalid search field", "bogus")

\* the names scan checks against the model are all fields
ValidatedOk(m, config) ==
    /\ ~ParamsBad(m, config.params)
    /\ KeywordGiven(config.search) => BadSearchFields(m, config.search) = {}
    /\ Truthy(config.sortBy) => IsFieldValue(m, config.sortBy)

\* timeKey, a groupBy entry, an exclude entry or aggregationField is no field
UnvalidatedBad(m, config) ==
    \/ Truthy(config.timeKey) /\ ~IsFieldValue(m, config.timeKey)
    \/ IsArray(config.groupBy) /\ \E v \in Range(config.groupBy.l) : ~IsFieldValue(m, v)
    \/ IsArray(config.exclude) /\ \E v \in Range(config.exclude.l) : ~IsFieldValue(m, v)
    \/ Truthy(config.aggregationField) /\ ~IsFieldValue(m, config.aggregationField)

\* exclude and aggregationField together, with neither groupBy nor distinct
ExcludeWithAggregation(config) ==
    /\ Truthy(config.aggregationField)
    /\ IsArray(config.exclude)
    /\ ~Truthy(config.groupBy)
    /\ ~\E i \in 1..Len(config.params) :
          config.params[i].key = "distinct" /\ ~IsArray(config.params[i].val)

\* C4 as stated: a request whose timeKey, groupBy entry, exclude entry or
\* aggregationField is no field of the model is rejected before findAll or
\* findAndCountAll is called.
C4_AnyBadReferenceFails ==
    (ScanDone /\ UnvalidatedBad(models[call.config.table], call.config))
        => FailedEarly

\* C4 amended: scan checks against the model only the params keys holding a
\* scalar, a scalar distinct value, the search fields (when a keyword is
\* given) and sortBy; timeKey, groupBy, exclude and aggregationField are not
\* validated.  The backend is called exactly when the checked names are all
\* fields, except that exclude with aggregationField (without groupBy and
\* distinct) ends in a TypeError; every other failure is one of the four
\* invalid-field errors.
C4_OnlyCheckedNamesReject ==
    ScanDone =>
        LET m == models[call.config.table]
            cfg == call.config
        IN  /\ ScanCalled <=> (ValidatedOk(m, cfg) /\ ~ExcludeWithAggregation(cfg))
            /\ ScanCalled => log = <<Finder(cfg)>>
            /\ ~ScanCalled =>
                /\ FailedEarly
                /\ result.err.msg \in {"Invalid param", "Invalid distinct field",
                                       "Invalid search field", "Invalid sortBy",
                                       "TypeError"}
            /\ result.err.msg = "TypeError" =>
                ValidatedOk(m, cfg) /\ ExcludeWithAggregation(cfg)
            /\ result.err.msg = "Invalid sortBy" =>
                /\ result.err.arg = Text(cfg.sortBy)
                /\ ~IsFieldValue(m, cfg.sortBy)

C4_Witness ==
    /\ ScanCalled
    /\ call.config.timeKey = Str("bogus")
    /\ call.config.groupBy = List(<<Str("bogus")>>)
    /\ call.config.exclude = List(<<Str("bogus")>>)
    /\ call.config.aggregationField = Str("bogus")
    /\ Truthy(call.config.startTime)

\* the request has params and neither search, time range nor groupBy
ParamsOnly(config) ==
    /\ config.params # <<>>
    /\ ~config.search.present
    /\ NoTimeRange(config)
    /\ ~Truthy(config.groupBy)

\* C5: on a scan with params and no search, time range or groupBy, where has
\* exactly one entry per params key other than a scalar distinct: {IN: list}
\* for a list, the value itself for a scalar not of the '<op>:<value>' form;
\* a scalar distinct adds no where entry and makes the projection DISTINCT on
\* the named field.
C5_ParamsWhere ==
    (ScanCalled /\ ParamsOnly(call.config)) =>
        LET ps == call.config.params
            w == plan.where
        IN  /\ DOMAIN w.ent = ExpectedParamKeys(ps)
            /\ ~w.hasOr
            /\ \A i \in 1..Len(ps) :
                  IF IsArray(ps[i].val)
                  THEN w.ent[ps[i].key] = OpsPred({OpVal("IN", ps[i].val)})
                  ELSE IF ps[i].key = "distinct"
                  THEN /\ "distinct" \notin DOMAIN w.ent
                       /\ plan.attributes.kind = "array"
                       /\ Len(plan.attributes.list) >= 1
                       /\ plan.attributes.list[1] =
                             Attr("distinct", Text(ps[i].val), FALSE, FALSE,
                                  Text(ps[i].val))
                  ELSE ps[i].val.pre = "" => w.ent[ps[i].key] = ValPred(ps[i].val)

C5_Witness ==
    /\ ScanCalled
    /\ ParamsOnly(call.config)
    /\ call.config.table = "testModels"
    /\ call.config.params =
          <<KV("distinct", Str("name")), KV("namespace", List(<<Num(1), Num(2)>>))>>

\* the Sequelize operator an inequality token stands for
InequalityOp(token) == IF token = "gt" THEN "GT" ELSE "LT"

\* C6: a scalar param '<op>:<value>' with an inequality token yields the
\* comparison predicate {<OP>: '<value>'} on that field, the remainder kept
\* as text.
C6_InequalityParam ==
    (ScanCalled /\ ParamsOnly(call.config)) =>
        \A i \in 1..Len(call.config.params) :
            LET q == call.config.params[i]
            IN  (~IsArray(q.val) /\ q.key # "distinct" /\ q.val.pre \in {"gt", "lt"})
                    => plan.where.ent[q.key] =
                          OpsPred({OpVal(InequalityOp(q.val.pre), Str(q.val.s))})


\* positions of the params keys that are declared indexes of a model that
\* declares both indexes and rangeKeys
IndexMatches(m, params) ==
    {i \in 1..Len(params) :
        m.hasIndexes /\ m.hasRangeKeys /\ params[i].key \in Range(m.indexes)}
\* rangeKeys[i] for the index indexes[i] = key
RangeKeyFor(m, key) ==
    m.rangeKeys[Least({j \in 1..Len(m.indexes) : m.indexes[j] = key})]
ExpectedDir(config) == IF config.sort = Str("ascending") THEN "ASC" ELSE "DESC"
PlainScan(config) == ~Truthy(config.groupBy) /\ ~Truthy(config.aggregationField)

\* C7 as stated: without groupBy and aggregationField the order is
\* [[key, dir]], key being sortBy when given, else rangeKeys[i] when exactly
\* one params key equals indexes[i], else 'id'.
C7_OrderExactlyOneMatch ==
    (ScanCalled /\ PlainScan(call.config)) =>
        LET m == models[call.config.table]
            cfg == call.config
            hit == IndexMatches(m, cfg.params)
            key == IF Truthy(cfg.sortBy) THEN Text(cfg.sortBy)
                   ELSE IF Cardinality(hit) = 1
                   THEN RangeKeyFor(m, cfg.params[Least(hit)].key)
                   ELSE "id"
        IN  plan.order = OrderBy(key, FALSE, ExpectedDir(cfg))

\* C7 amended: without groupBy and aggregationField the order is exactly
\* [[key, dir]], key being sortBy when given; otherwise, when at least one
\* params key equals a declared index indexes[i] of a model declaring both
\* indexes and rangeKeys, rangeKeys[i] for the last such key in params order;
\* otherwise 'id'; dir is 'ASC' iff sort is 'ascending', else 'DESC'.
C7_OrderLastMatch ==
    (ScanCalled /\ PlainScan(call.config)) =>
        LET m == models[call.config.table]
            cfg == call.config
            hit == IndexMatches(m, cfg.params)
            key == IF Truthy(cfg.sortBy) THEN Text(cfg.sortBy)
                   ELSE IF hit # {}
                   THEN RangeKeyFor(m, cfg.params[Greatest(hit)].key)
                   ELSE "id"
        IN  plan.order = OrderBy(key, FALSE, ExpectedDir(cfg))

C7_Witness ==
    /\ ScanCalled
    /\ PlainScan(call.config)
    /\ ~Truthy(call.config.sortBy)
    /\ Cardinality(IndexMatches(models[call.config.table], call.config.params)) = 2
    /\ plan.order = OrderBy("createTime", FALSE, "ASC")

\* the where entries left by params and a single-field search on field
SingleSearchEnt(params, field, pred) ==
    [k \in ExpectedParamKeys(params) \cup {field} |->
        IF k = field THEN pred ELSE ExpectedParamPred(Param(params, k))]

\* C8: a search without inverse and with string keywords builds one
\* predicate {field: {OP: keyword}} per (field, keyword) pair, OP being ILIKE
\* on postgres and LIKE otherwise; in the list form where.OR holds exactly
\* the |fields| x |keywords| predicates, fields outer and keywords inner, and
\* every predicate built from params stays in where beside OR.
C8_SearchPredicates ==
    (ScanCalled /\ KeywordGiven(call.config.search)
     /\ ~call.config.search.inverse
     /\ AllStrings(AsList(call.config.search.keyword))) =>
        LET cfg == call.config
            se == cfg.search
        IN  /\ IF ListForm(se)
               THEN /\ searchWhere.hasOr
                    /\ searchWhere.or =
                          ExpectedOr(AsList(se.field), AsList(se.keyword), PatternOp)
                    /\ searchWhere.ent = ExpectedParamEnt(cfg.params)
               ELSE /\ ~searchWhere.hasOr
                    /\ searchWhere.ent =
                          SingleSearchEnt(cfg.params, Text(se.field),
                              OpsPred({OpVal(PatternOp, se.keyword)}))
            /\ (NoTimeRange(cfg) /\ ~Truthy(cfg.groupBy)) => plan.where = searchWhere

C8_Witness ==
    /\ ScanCalled
    /\ dialect = "postgres"
    /\ ~call.config.search.inverse
    /\ call.config.search.field = List(<<Str("namespace"), Str("name")>>)
    /\ call.config.search.keyword = List(<<Str("foo"), Str("screwdriver")>>)
    /\ call.config.params = <<KV("name", Str("name"))>>
    /\ Len(plan.where.or) = Len(call.config.search.field.l)
                               * Len(call.config.search.keyword.l)

\* C9: with search.inverse the pattern operator is negated, NOT LIKE (NOT
\* ILIKE on postgres), in the single form and for every pair of the list form.
C9_InverseNegates ==
    (ScanCalled /\ KeywordGiven(call.config.search)
     /\ call.config.search.inverse
     /\ AllStrings(AsList(call.config.search.keyword))) =>
        LET se == call.config.search
        IN  IF ListForm(se)
            THEN \A i \in 1..Len(searchWhere.or) :
                    searchWhere.or[i].op = NegatedPatternOp
            ELSE searchWhere.ent[Text(se.field)] =
                    OpsPred({OpVal(NegatedPatternOp, se.keyword)})

\* the operator C10 expects of one pair
PairOp(keyword) == IF IsInteger(keyword) THEN "EQ" ELSE PatternOp

\* C10 as stated: each pair whose keyword is an integer uses EQ and each
\* other pair the pattern operator, for a scalar keyword and for an integer
\* at any position of a keyword list.
C10_IntegerKeywordPerPair ==
    (ScanCalled /\ KeywordGiven(call.config.search)
     /\ ~call.config.search.inverse) =>
        LET se == call.config.search
        IN  IF ListForm(se)
            THEN \A i \in 1..Len(searchWhere.or) :
                    searchWhere.or[i].op = PairOp(searchWhere.or[i].kw)
            ELSE searchWhere.ent[Text(se.field)] =
                    OpsPred({OpVal(PairOp(se.keyword), se.keyword)})

\* C10 amended: when field or keyword is a list, every pair uses EQ if the
\* first keyword of the list is an integer and the pattern operator
\* otherwise, whatever the other keywords are; a scalar keyword searched on a
\* scalar field always uses the pattern operator, integer or not.
C10_FirstKeywordDecides ==
    (ScanCalled /\ KeywordGiven(call.config.search)
     /\ ~call.config.search.inverse) =>
        LET se == call.config.search
            kws == AsList(se.keyword)
        IN  IF ListForm(se)
            THEN searchWhere.or =
                    ExpectedOr(AsList(se.field), kws,
                               IF Len(kws) > 0 /\ IsInteger(kws[1])
                               THEN "EQ" ELSE PatternOp)
            ELSE searchWhere.ent[Text(se.field)] =
                    OpsPred({OpVal(PatternOp, se.keyword)})

C10_Witness ==
    /\ ScanCalled
    /\ ~call.config.search.inverse
    /\ call.config.search.keyword = List(<<Num(5), Str("foo")>>)
    /\ \E i \in 1..Len(searchWhere.or) :
          searchWhere.or[i] = OrPred("name", "EQ", Str("foo"))

\* config.timeKey || 'createTime', as the claims name the time key
ExpectedTimeKey(config) ==
    IF Truthy(config.timeKey) THEN Text(config.timeKey) ELSE "createTime"
\* where[key] is an operator object holding {op: v}
HasBound(where, key, op, v) ==
    /\ key \in DOMAIN where.ent
    /\ where.ent[key].kind = "ops"
    /\ OpVal(op, v) \in where.ent[key].ops

\* C11: on a scan without groupBy the final where clause holds a >= startTime
\* bound on the time key whenever startTime is supplied and a <= endTime
\* bound on it whenever endTime is supplied, whatever params and search the
\* request carries.
C11_TimeBounds ==
    (ScanCalled /\ ~Truthy(call.config.groupBy)) =>
        /\ Truthy(call.config.startTime) =>
              HasBound(plan.where, ExpectedTimeKey(call.config), "GTE",
                       call.config.startTime)
        /\ Truthy(call.config.endTime) =>
              HasBound(plan.where, ExpectedTimeKey(call.config), "LTE",
                       call.config.endTime)

\* C12: with paginate {count, page} the plan has limit = count and
\* offset = count * (page - 1), so page 1 gives offset 0; without paginate
\* the plan has neither a limit nor an offset.
C12_Pagination ==
    ScanCalled =>
        IF call.config.paginate.present
        THEN /\ plan.hasLimit
             /\ plan.limit = call.config.paginate.count
             /\ plan.offset =
                   call.config.paginate.count * (call.config.paginate.page - 1)
             /\ call.config.paginate.page = 1 => plan.offset = 0
        ELSE ~plan.hasLimit

C12_Witness ==
    /\ ScanCalled
    /\ call.config.paginate = Paginate(25, 3)
    /\ plan.limit = 25
    /\ plan.offset = 50

\* the projection ends with the aggregation field and its COUNT aliased count
ProjectsCount(attributes, field) ==
    /\ attributes.kind = "array"
    /\ Len(attributes.list) >= 2
    /\ attributes.list[Len(attributes.list) - 1] =
          Attr("name", field, FALSE, FALSE, "")
    /\ attributes.list[Len(attributes.list)] =
          Attr("count", field, FALSE, FALSE, "count")

\* C13: every scan with aggregationField that passes validation reaches the
\* backend with a plan that projects the aggregation field and a COUNT of it
\* aliased 'count', groups by the aggregation field and has no order entry,
\* also when the request carries exclude, a distinct param, sort or sortBy.
C13_AggregationPlan ==
    (ScanDone /\ Truthy(call.config.aggregationField)
     /\ ValidatedOk(models[call.config.table], call.config)) =>
        /\ ScanCalled
        /\ ProjectsCount(plan.attributes, Text(call.config.aggregationField))
        /\ plan.hasGroup
        /\ plan.group = Text(call.config.aggregationField)
        /\ plan.order = NoOrder

\* the same request with getCount switched
CountTwin(config) == [config EXCEPT !.getCount = ~@]
\* what _scan builds for the request config
BuiltFor(config) ==
    ScanBuild(dialect, prefix, models[config.table], config)

\* C14: the plan handed to findAndCountAll under getCount is the plan handed
\* to findAll for the same request without getCount; under getCount findAll
\* is never called, and the call resolves to {count, rows} with the count the
\* backend answered and every row decoded.
C14_CountSamePlan ==
    ScanDone =>
        /\ ScanCalled <=> ~Failed(BuiltFor(CountTwin(call.config)))
        /\ ScanCalled =>
              /\ plan = PlanOf(BuiltFor(CountTwin(call.config)),
                               CountTwin(call.config))
              /\ log = <<IF call.config.getCount
                         THEN "findAndCountAll" ELSE "findAll">>
        /\ (call.config.getCount /\ result.state = "resolved") =>
              /\ result.value.kind = "counted"
              /\ result.value.count = response.count
              /\ Len(result.value.rows) = Len(response.rows)
              /\ result.value.rows =
                    DecodeAll(models[call.config.table], response.rows)

C14_Witness ==
    /\ ScanCalled
    /\ call.config.getCount
    /\ call.config.paginate.present
    /\ log = <<"findAndCountAll">>
    /\ response.rows = <<JobRow, NamelessJobRow>>
    /\ result = Resolved(CountedValue(12,
                   <<JobRow, <<KV("id", Num(2))>> >>))

\* the handler of op has run on a registered table
Handled(op) ==
    call.op = op /\ pc # "pending" /\ call.config.table \in tables

\* C15: get on a registered table makes exactly one backend call,
\* findByPk(params.id) when params.id is defined and otherwise findOne with
\* where equal to all of params; when the backend answers no row, get
\* resolves to null.
C15_GetOneCall ==
    Handled("get") =>
        /\ IF Param(call.config.params, "id") # Undefined
           THEN /\ log = <<"findByPk">>
                /\ args = Args(Param(call.config.params, "id"), <<>>, <<>>)
           ELSE /\ log = <<"findOne">>
                /\ args = Args(Undefined, call.config.params, <<>>)
        /\ response.kind = "null" => result = Resolved(NullValue)

C15_Witness ==
    /\ Handled("get")
    /\ call.config.params = <<KV("name", Str("foo"))>>
    /\ log = <<"findOne">>
    /\ response.kind = "null"
    /\ result.state = "resolved"
    /\ result.value.kind = "null"

\* what create or update is to receive for the i-th field of params: the
\* resolved value, as JSON text when the model declares the field array or
\* object
ExpectedItem(m, params) ==
    [i \in 1..Len(params) |->
        KV(params[i].key,
           IF FieldType(m, params[i].key) \in {"array", "object"}
           THEN JsonText(Awaited(params[i].val))
           ELSE Awaited(params[i].val))]

\* C16: save on a registered table calls create once, and only after every
\* promise among the values of params has been fulfilled; create receives
\* the resolved values, array and object fields as JSON text and the other
\* fields unchanged; if a pending value rejects, create is never called and
\* save rejects.
C16_SaveAfterResolve ==
    Handled("save") =>
        /\ log \in {<<"encode">>, <<"encode", "create">>}
        /\ log = <<"encode", "create">> =>
              /\ \A i \in 1..Len(awaited) : awaited[i] = "fulfilled"
              /\ args.item = ExpectedItem(models[call.config.table],
                                          call.config.params)
        /\ result.state = "resolved" => log = <<"encode", "create">>
        /\ (\E i \in 1..Len(awaited) : awaited[i] = "rejected") =>
              /\ log = <<"encode">>
              /\ pc = "settled"
              /\ result.state = "rejected"

C16_Witness ==
    /\ Handled("save")
    /\ call.config.table = "testModels"
    /\ call.config.params =
          <<KV("arr", Promised(List(<<Num(1), Num(2), Num(3)>>)))>>
    /\ log = <<"encode", "create">>
    /\ args.item =
          <<KV("arr", TextOf(<<Punct("["), Num(1), Punct(","), Num(2),
                               Punct(","), Num(3), Punct("]")>>))>>

\* C17: update on a registered table calls the backend update once, with the
\* encoded params and the filter {id: params.id}, and resolves to the
\* caller's params as they were given, array and object fields in application
\* shape, whether or not a stored row matched the id.
C17_UpdateReturnsParams ==
    Handled("update") =>
        /\ log \in {<<"encode">>, <<"encode", "update">>}
        /\ log = <<"encode", "update">> =>
              args = Args(Undefined,
                          <<KV("id", Param(call.config.params, "id"))>>,
                          ExpectedItem(models[call.config.table],
                                       call.config.params))
        /\ result.state = "resolved" =>
              /\ log = <<"encode", "update">>
              /\ response.kind = "count"
              /\ result.value = RecordValue(call.config.params)

C17_Witness ==
    /\ Handled("update")
    /\ call.config.table = "testModels"
    /\ call.config.params =
          <<KV("id", Num(1)), KV("arr", List(<<Num(1), Num(2), Num(3)>>)),
            KV("obj", Obj(<<>>))>>
    /\ response = Response("count", <<>>, 0)
    /\ args.item[2].val.k = "json"
    /\ result.state = "resolved"
    /\ result.value.rows[1][2].val = List(<<Num(1), Num(2), Num(3)>>)

\* the record rec has the member key with the value v
HasMember(rec, key, v) ==
    \E i \in 1..Len(rec) : rec[i].key = key /\ rec[i].val = v
HasKey(rec, key) == \E i \in 1..Len(rec) : rec[i].key = key
\* positions of the fields of rec that the model declares array or object
JsonFields(m, rec) ==
    {i \in 1..Len(rec) : FieldType(m, rec[i].key) \in {"array", "object"}}
\* get was answered the row that stores the encoding of rec
AnsweredEncodingOf(rec) ==
    /\ Handled("get")
    /\ response.kind = "item"
    /\ response.rows[1] = Encode(models[call.config.table], rec)

\* C18 as stated: decoding the encoded record gives back the original value
\* on every field declared array or object, null, empty containers and nested
\* structures included.
C18_RoundTrip ==
    \A rec \in JsonRecords :
        AnsweredEncodingOf(rec) =>
            /\ result.state = "resolved"
            /\ \A i \in JsonFields(models[call.config.table], rec) :
                  HasMember(result.value.rows[1], rec[i].key, rec[i].val)

\* C18 amended: decoding the encoded record gives back the original value on
\* every field declared array or object whose value is not null, empty
\* containers and nested structures (nulls inside them too) included; a
\* field whose value is null is absent from the decoded record.
C18_RoundTripButNull ==
    \A rec \in JsonRecords :
        AnsweredEncodingOf(rec) =>
            /\ result.state = "resolved"
            /\ \A i \in JsonFields(models[call.config.table], rec) :
                  IF rec[i].val = Null
                  THEN ~HasKey(result.value.rows[1], rec[i].key)
                  ELSE HasMember(result.value.rows[1], rec[i].key, rec[i].val)

C18_Witness ==
    /\ AnsweredEncodingOf(
          <<KV("id", Num(1)),
            KV("arr", List(<<List(<<Num(1)>>), Null, Str("a"), Obj(<<>>)>>)),
            KV("obj", Null)>>)
    /\ result.state = "resolved"
    /\ result.value.rows[1] =
          <<KV("id", Num(1)),
            KV("arr", List(<<List(<<Num(1)>>), Null, Str("a"), Obj(<<>>)>>))>>

\* get or scan resolved after a backend answer
Fetched ==
    /\ call.op \in {"get", "scan"}
    /\ pc = "settled"
    /\ result.state = "resolved"

\* C19: a record resolved by get and every record of a scan result, with or
\* without getCount, has no top-level key holding null; a null row decodes
\* to null.
C19_NoNullKeys ==
    Fetched =>
        /\ \A j \in 1..Len(result.value.rows) :
              \A i \in 1..Len(result.value.rows[j]) :
                 result.value.rows[j][i].val # Null
        /\ response.kind = "null" => result.value = NullValue
        /\ response.kind # "null" =>
              Len(result.value.rows) = Len(response.rows)

C19_Witness ==
    /\ Fetched
    /\ call.op = "scan"
    /\ call.config.getCount
    /\ response.rows = <<GoodRow, NullsRow>>
    /\ result.value.rows[2] =
          <<KV("id", Num(2)), KV("bool", Bool(FALSE)), KV("name", Str("bar"))>>

\* the backend answered a row holding text that is no JSON in an array or
\* object field
AnsweredMalformed ==
    /\ call.op \in {"get", "scan"}
    /\ response.kind \in {"item", "rows", "counted"}
    /\ \E j \in 1..Len(response.rows) :
          response.rows[j] \in {TruncatedRow, BareWordRow}

\* C20: when a row answered to get or scan holds text that is no valid JSON
\* in a field declared array or object, the call rejects with the parse
\* error; it never resolves, neither with the field unparsed or dropped nor
\* with the remaining rows.
C20_MalformedRejects ==
    AnsweredMalformed =>
        /\ pc = "settled"
        /\ result.state = "rejected"
        /\ result.err.msg = "SyntaxError"
        /\ result.value = NoValue

C20_Witness ==
    /\ AnsweredMalformed
    /\ call.op = "scan"
    /\ response.rows = <<GoodRow, TruncatedRow>>
    /\ result = Outcome("rejected", Err("SyntaxError", "arr"))

-----------------------------------------------------------------------------
(* C27: the plan of a grouped scan *)

\* the model fields a grouped scan keeps, in model order
KeptFields(m, config) ==
    LET Kept(f) == ~(IsArray(config.exclude) /\ Str(f) \in Range(config.exclude.l))
    IN  SelectSeq(m.fields, Kept)
\* entries 1..Len(kept) of a projection are the kept fields, each aliased to
\* its own name, cast iff the field is boolean
ProjectsKept(m, list, kept) ==
    /\ Len(list) >= Len(kept)
    /\ \A i \in 1..Len(kept) :
          /\ list[i].t = "col"
          /\ list[i].as = kept[i]
          /\ list[i].cast = (m.types[kept[i]] = "boolean")
\* the where clause is { id: { EQ: (max-id subquery on table, cols) } }
WhereIsMaxId(where, tableName, cols) ==
    /\ DOMAIN where.ent = {"id"}
    /\ ~where.hasOr
    /\ where.ent["id"].kind = "ops"
    /\ where.ent["id"].ops = {OpVal("EQ", SubQuery(tableName, cols))}
GroupedScan == ScanCalled /\ IsArray(call.config.groupBy)

\* C27 as stated: with an array groupBy the projection is exactly the model
\* fields not listed in exclude, in model order, each aliased to its own name
\* and boolean fields cast to integer, and the where clause is exactly the
\* max-id subquery predicate on id.
C27_GroupedPlanExact ==
    GroupedScan =>
        LET m == models[call.config.table]
            kept == KeptFields(m, call.config)
        IN  /\ plan.attributes.kind = "array"
            /\ Len(plan.attributes.list) = Len(kept)
            /\ ProjectsKept(m, plan.attributes.list, kept)
            /\ WhereIsMaxId(plan.where, prefix \o call.config.table,
                            call.config.groupBy.l)

\* C27 amended: with an array groupBy the projection begins with the model
\* fields not listed in exclude, in model order, each aliased to its own name
\* and boolean fields cast to integer; it holds nothing else when no
\* aggregationField is given, and is followed by the aggregation field and its
\* COUNT when one is; the where clause is exactly the max-id subquery
\* predicate on id, so no predicate of params, search or the time range is in
\* it.
C27_GroupedPlan ==
    GroupedScan =>
        LET m == models[call.config.table]
            kept == KeptFields(m, call.config)
            extra == IF Truthy(call.config.aggregationField) THEN 2 ELSE 0
        IN  /\ plan.attributes.kind = "array"
            /\ Len(plan.attributes.list) = Len(kept) + extra
            /\ ProjectsKept(m, plan.attributes.list, kept)
            /\ extra = 2 =>
                  /\ plan.attributes.list[Len(kept) + 1].t = "name"
                  /\ plan.attributes.list[Len(kept) + 2].t = "count"
            /\ WhereIsMaxId(plan.where, prefix \o call.config.table,
                            call.config.groupBy.l)

C27_Witness ==
    /\ GroupedScan
    /\ call.config.table = "templates"
    /\ call.config.params # <<>>
    /\ call.config.search.present
    /\ Truthy(call.config.startTime)
    /\ IsArray(call.config.exclude)
    /\ Len(plan.attributes.list) = 3
    /\ plan.attributes.list[3].cast
    /\ DOMAIN searchWhere.ent # {}

-----------------------------------------------------------------------------
(* C29: how _scan reports an invalid reference *)

InvalidReference ==
    {"Invalid table name", "Invalid param", "Invalid distinct field",
     "Invalid search field", "Invalid sortBy"}

\* C29: a scan that ends on an invalid-reference condition (unknown table,
\* invalid param, invalid distinct field, invalid search field, invalid
\* sortBy) ends as a rejected promise; _scan never throws it to its caller.
C29_ScanRejectsNeverThrows ==
    (call.op = "scan" /\ pc = "settled" /\ result.err.msg \in InvalidReference)
        => result.state = "rejected"

-----------------------------------------------------------------------------
(* C30: the sort key and the order of the params keys *)

\* the params objects holding the same key/value pairs in any order
KeyOrders(params) ==
    {q \in [1..Len(params) -> Range(params)] :
        \A i, j \in 1..Len(params) : i # j => q[i] # q[j]}
\* every key order of the request's params gives the order entry of the plan
SameOrderInEveryKeyOrder ==
    \A q \in KeyOrders(call.config.params) :
        BuiltFor([call.config EXCEPT !.params = q]).order = plan.order
\* the range keys the params keys select by index matching
MatchedRangeKeys(m, params) ==
    {RangeKeyFor(m, params[i].key) : i \in IndexMatches(m, params)}

\* C30 as stated: without sortBy, two scans of one table whose params hold
\* the same key/value pairs in different orders get the same order entry,
\* also when several params keys match different declared indexes.
C30_OrderIgnoresKeyOrder ==
    (ScanCalled /\ ~Truthy(call.config.sortBy)) => SameOrderInEveryKeyOrder

\* C30 amended: without sortBy, two scans of one table whose params hold the
\* same key/value pairs in different orders get the same order entry when the
\* params keys that match declared indexes select at most one range key; when
\* they select several, the last matching key in params order decides, so the
\* order entry follows the key order.
C30_OrderIgnoresKeyOrderOneRangeKey ==
    (ScanCalled /\ ~Truthy(call.config.sortBy)
       /\ Cardinality(MatchedRangeKeys(models[call.config.table],
                                       call.config.params)) <= 1)
        => SameOrderInEveryKeyOrder

C30_Witness ==
    /\ ScanCalled
    /\ ~Truthy(call.config.sortBy)
    /\ Len(call.config.params) = 2
    /\ Cardinality(IndexMatches(models[call.config.table], call.config.params)) = 1
    /\ call.config.params[1].key = "namespace"
    /\ plan.order = OrderBy("createTime", FALSE, "DESC")

-----------------------------------------------------------------------------
(* C21: one backend operation per call, its rejection handed on *)

DataOps == {"get", "save", "remove", "update", "scan", "query"}
\* the backend data operations the call has invoked so far
BackendCalls == {i \in 1..Len(log) : log[i] # "encode"}

\* C21: a get, save, remove, update, scan or query call invokes at most one
\* backend data operation; when that operation rejects, the call is settled
\* as rejected with the very error the backend gave, and the backend is not
\* invoked again for the call.
C21_OneCallErrorPassedOn ==
    call.op \in DataOps =>
        /\ Cardinality(BackendCalls) <= 1
        /\ response.kind = "error" =>
              /\ pc = "settled"
              /\ result = Outcome("rejected", response.err)
              /\ Cardinality(BackendCalls) = 1

C21_Witness ==
    /\ call.op = "save"
    /\ log = <<"encode", "create">>
    /\ response = Rejection(Err("SequelizeTimeoutError", ""))
    /\ result.state = "rejected"
    /\ result.err.msg = "SequelizeTimeoutError"

-----------------------------------------------------------------------------
(* C22: which query text query executes *)

\* the positions of the queries entries written for the active dialect
ForDialect(queries) == {i \in 1..Len(queries) : queries[i].dbType = dialect}

\* C22: query on an unregistered table rejects with 'Invalid table name',
\* also when no entry of queries is for the active dialect; on a registered
\* table with no such entry it rejects with 'No query found'; in both cases
\* no query is executed.  Otherwise it executes once the query text of the
\* (first) entry whose dbType is the active dialect, with the replacements
\* of the request.
C22_QueryForDialect ==
    (call.op = "query" /\ pc # "pending") =>
        IF call.config.table \notin tables
        THEN /\ result = Outcome("rejected",
                                 Err("Invalid table name", call.config.table))
             /\ log = <<>>
             /\ sql = NoSql
        ELSE IF ForDialect(call.config.queries) = {}
        THEN /\ result = Outcome("rejected", Err("No query found", dialect))
             /\ log = <<>>
             /\ sql = NoSql
        ELSE /\ log = <<"query">>
             /\ sql.query =
                   call.config.queries[Least(ForDialect(call.config.queries))].query
             /\ sql.replacements = call.config.replacements

C22_Witness ==
    /\ call.op = "query"
    /\ dialect = "sqlite"
    /\ Len(call.config.queries) = 3
    /\ call.config.replacements # <<>>
    /\ sql.query = "SELECT lite"
    /\ pc = "settled"
    /\ result.state = "resolved"

-----------------------------------------------------------------------------
(* C23: what query resolves to *)

\* C23: when the backend answers rows that all decode, query resolves to the
\* decoded records (array and object fields parsed, null-valued keys removed)
\* unless rawResponse is set, and to the backend's rows unchanged when it is.
C23_QueryDecodes ==
    (call.op = "query" /\ pc = "settled" /\ response.kind = "rows"
       /\ ~AnyThrows(models[call.config.table], response.rows)) =>
        IF Truthy(call.config.rawResponse)
        THEN result = Resolved(RowsValue(response.rows))
        ELSE result =
                 Resolved(RowsValue(DecodeAll(models[call.config.table],
                                              response.rows)))

-----------------------------------------------------------------------------
(* C24: the column of a string field *)

\* the limits of the length and max rules of a field, in rule order
LimitsOf(rules) ==
    LET at == {i \in 1..Len(rules) : rules[i].name \in {"length", "max"}}
    IN  [lim |-> {rules[i].limit : i \in at},
         first |-> IF at = {} THEN 0 ELSE rules[Least(at)].limit]
\* field f of the i-th model is a string field other than id
StringField(i, f) ==
    /\ f \in Range(registry[i].fields) \ {"id"}
    /\ registry[i].describe[f].type = "string"

\* C24 as stated: a string field gets STRING(n), n the largest limit among
\* its length and max rules, and TEXT when it has no such rule.
C24_StringMaxLimit ==
    \A i \in 1..Len(defined) : \A f \in DOMAIN defined[i].tableFields :
        StringField(i, f) =>
            defined[i].tableFields[f].type =
                IF LimitsOf(registry[i].describe[f].rules).lim = {}
                THEN TEXT("")
                ELSE StringOf(Greatest(LimitsOf(registry[i].describe[f].rules).lim))

\* C24 amended: a string field gets STRING(n), n the limit of the first of
\* its length and max rules in rule order, when it has such a rule and that
\* limit is not zero, and TEXT otherwise.
C24_StringFirstLimit ==
    \A i \in 1..Len(defined) : \A f \in DOMAIN defined[i].tableFields :
        StringField(i, f) =>
            defined[i].tableFields[f].type =
                IF LimitsOf(registry[i].describe[f].rules).first = 0
                THEN TEXT("")
                ELSE StringOf(LimitsOf(registry[i].describe[f].rules).first)

C24_Witness ==
    /\ Len(defined) >= 1
    /\ registry[1].describe["name"] =
           Describe("string", <<Rule("max", 10), Rule("length", 40)>>)
    /\ defined[1].tableFields["name"].type = StringOf(10)

-----------------------------------------------------------------------------
(* C25: the column map and the table options handed to define *)

\* C25: for every model defined, the column map has one column per field;
\* 'id' has the unsigned-integer type with primaryKey and autoIncrement,
\* whatever its declared type; a field listed in keys has unique 'uniquerow'
\* and a field not listed has no unique attribute; the table options have
\* timestamps false and the model's indexes as declared.
C25_ColumnMap ==
    \A i \in 1..Len(defined) :
        /\ defined[i].tableName = prefix \o registry[i].tableName
        /\ DOMAIN defined[i].tableFields = Range(registry[i].fields)
        /\ \A f \in DOMAIN defined[i].tableFields :
              /\ f = "id" =>
                    /\ defined[i].tableFields[f].type =
                           SequelizeType("INTEGER.UNSIGNED", 0, "")
                    /\ defined[i].tableFields[f].primaryKey
                    /\ defined[i].tableFields[f].autoIncrement
              /\ f # "id" =>
                    /\ ~defined[i].tableFields[f].primaryKey
                    /\ ~defined[i].tableFields[f].autoIncrement
              /\ IF f \in Range(registry[i].keys)
                 THEN /\ "unique" \in defined[i].tableFields[f].has
                      /\ defined[i].tableFields[f].unique = "uniquerow"
                 ELSE "unique" \notin defined[i].tableFields[f].has
        /\ defined[i].tableOptions.timestamps = FALSE
        /\ defined[i].tableOptions.hasIndexes = registry[i].hasIndexes
        /\ defined[i].tableOptions.indexes = registry[i].indexes

C25_Witness ==
    /\ Len(defined) = 2
    /\ prefix = "boo_"
    /\ registry[1].keys = <<"id", "state">>
    /\ registry[1].describe["id"].type = "number"
    /\ registry[1].hasIndexes
    /\ defined[1].tableFields["id"].unique = "uniquerow"
    /\ defined[1].tableFields["state"].unique = "uniquerow"
    /\ defined[1].tableFields["id"].primaryKey
    /\ defined[2].tableName = "boo_jobs"

-----------------------------------------------------------------------------
(* C26: defaults *)

\* the defaultValue a field's default asks for: JSON text for an object field
ExpectedDefault(field) ==
    IF field.type = "object" THEN JsonText(field.default) ELSE field.default

\* C26: a field that declares a default gets, on a dialect other than mysql,
\* a column with defaultValue equal to the default (as JSON text for an
\* object field) and with allowNull false when the field is required; on
\* mysql a text or blob column has no defaultValue.
C26_DefaultsDefined ==
    \A i \in 1..Len(defined) : \A f \in DOMAIN defined[i].tableFields :
        registry[i].describe[f].hasDefault =>
            IF dialect # "mysql"
            THEN /\ "defaultValue" \in defined[i].tableFields[f].has
                 /\ defined[i].tableFields[f].defaultValue =
                        ExpectedDefault(registry[i].describe[f])
                 /\ registry[i].describe[f].required =>
                        /\ "allowNull" \in defined[i].tableFields[f].has
                        /\ defined[i].tableFields[f].allowNull = FALSE
            ELSE defined[i].tableFields[f].type.name \in {"TEXT", "BLOB"} =>
                    "defaultValue" \notin defined[i].tableFields[f].has

-----------------------------------------------------------------------------
(* C28: nothing is shared between calls *)

\* the call at hand and the other call in flight are the same request at the
\* same point, with the same promise outcomes and the same backend answer
Twins ==
    /\ parked.call = call
    /\ parked.pc = pc
    /\ parked.awaited = awaited
    /\ parked.response = response

\* C28: in every sequence and interleaving of calls the adapter stays as the
\* constructor left it (prefix, tables, models and the tables defined), and
\* two calls of one request that stand at the same point with the same
\* backend answer have the same plan, arguments, log and result, whatever
\* ran before or between them.
C28_NothingShared ==
    /\ Constructed
    /\ Twins => parked = Current

C28_Witness ==
    /\ started = MaxCalls
    /\ Twins
    /\ call.op = "scan"
    /\ call.config.table = "templates"
    /\ pc = "settled"
    /\ result.state = "resolved"
    /\ plan.order = OrderBy("name", FALSE, "DESC")

====
